---------------------------- MODULE Spec2Model ----------------------------
(***************************************************************************)
(* Finance ledger of the HomeHub application: the server's finance routes  *)
(* (backend/server.js) and the web client's finance component              *)
(* (FinancesComponent), as a state machine.                                *)
(*                                                                         *)
(* Conventions of the model                                                *)
(*  - Money is counted in cents.  A JavaScript number that holds money is  *)
(*    an exact rational [num, den] (of cents), kept in lowest terms; the   *)
(*    binary rounding of doubles is not modelled.                          *)
(*  - A calendar date is [year, month, day].  The server process runs in   *)
(*    UTC, so a DATE column, its JavaScript Date and its ISO string name   *)
(*    the same calendar day.                                               *)
(*  - A NULL (or absent) date is NoDate; a NULL (or absent) payment_months  *)
(*    is NoMonths, which JavaScript's truthiness tests treat like null.    *)
(***************************************************************************)
EXTENDS Integers, Sequences, FiniteSets, TLC

VARIABLES
    homeFinances,        \* table home_finances: id -> row
    financeVisibility,   \* table home_finance_visibility: set of <<finance_id, user_id>>
    nextFinanceId,       \* AUTO_INCREMENT counter of home_finances
    homeMembers,         \* table home_members: set of [home_id, user_id, status]
    families,            \* table families: set of [requester_id, recipient_id, status]
    response,            \* the HTTP response on its way to the caller, with its request
    authUser,            \* client: the logged-in user (AuthService)
    homeId,              \* client: FinancesComponent.homeId
    currentMonth,        \* client: FinancesComponent.currentMonth
    currentYear,         \* client: FinancesComponent.currentYear
    selectedType,        \* client: FinancesComponent.selectedType
    finances,            \* client: FinancesComponent.finances
    displayedFinances,   \* client: FinancesComponent.displayedFinances
    balance,             \* client: FinancesComponent.balance
    editingFinance,      \* client: FinancesComponent.editingFinance
    financeForm,         \* client: the value of FinancesComponent.financeForm
    shoppingLists,       \* table shopping_lists: set of [id, home_id, status]
    inFlight             \* requests under way: handlers between two of their
                         \* queries, responses not yet arrived at the client

vars == <<homeFinances, financeVisibility, nextFinanceId, homeMembers, families, response,
          authUser, homeId, currentMonth, currentYear, selectedType,
          finances, displayedFinances, balance, editingFinance, financeForm,
          shoppingLists, inFlight>>

serverVars == <<homeFinances, financeVisibility, nextFinanceId, homeMembers, families>>
clientVars == <<authUser, homeId, currentMonth, currentYear, selectedType,
                finances, displayedFinances, balance, editingFinance, financeForm>>
concurrentVars == <<shoppingLists, inFlight>>

\* due_date DATE NULL: the NULL date.
NoDate == [year |-> 0, month |-> 0, day |-> 0]

\* payment_months INT NULL: the NULL (and JavaScript-falsy) value.
NoMonths == 0

\* editingFinance is null; the form is closed.
NoFinance == [id |-> 0]
NoForm == [open |-> FALSE, type |-> "income", amount |-> [num |-> 0, den |-> 1],
           transaction_date |-> NoDate, is_recurring |-> FALSE, due_date |-> NoDate,
           payment_months |-> NoMonths, visible_to_user_ids |-> {}]

-----------------------------------------------------------------------------
(* Exact rationals standing for JavaScript numbers.                        *)

RECURSIVE Gcd(_, _)
Gcd(a, b) == IF b = 0 THEN a ELSE Gcd(b, a % b)

Abs(n) == IF n < 0 THEN -n ELSE n

\* The JavaScript NaN; every sum, difference or quotient with it is NaN.
NaN == [num |-> 0, den |-> 0]

Rat(n, d) ==
    LET g == Gcd(Abs(n), d)
    IN  IF d = 0 THEN NaN
        ELSE IF n = 0 THEN [num |-> 0, den |-> 1]
        ELSE [num |-> n \div g, den |-> d \div g]

RatInt(n) == [num |-> n, den |-> 1]
RatAdd(a, b) == Rat(a.num * b.den + b.num * a.den, a.den * b.den)
RatSub(a, b) == Rat(a.num * b.den - b.num * a.den, a.den * b.den)
RatDivInt(a, k) == Rat(a.num, a.den * k)

\* Math.round of a non-negative number: the nearest integer, halves upward.
MathRound(a) == (2 * a.num + a.den) \div (2 * a.den)

-----------------------------------------------------------------------------
(* Calendar.                                                               *)

Date(y, m, d) == [year |-> y, month |-> m, day |-> d]

IsLeap(y) == (y % 4 = 0 /\ y % 100 # 0) \/ y % 400 = 0

DaysInMonth(y, m) ==
    IF m = 2 THEN (IF IsLeap(y) THEN 29 ELSE 28)
    ELSE IF m \in {4, 6, 9, 11} THEN 30 ELSE 31

\* new Date(y, m - 1, d) for 1 <= d <= 31: a day past the end of the month
\* rolls over into the next month.
JsDate(y, m, d) ==
    IF d <= DaysInMonth(y, m) THEN Date(y, m, d)
    ELSE IF m = 12 THEN Date(y + 1, 1, d - DaysInMonth(y, m))
    ELSE Date(y, m + 1, d - DaysInMonth(y, m))

-----------------------------------------------------------------------------
(* Server: tables and access helpers.                                      *)

\* Amount obfuscation constant - multiply before storing, divide when reading
AMOUNT_OBFUSCATION_FACTOR == 1009

NumUsers == 3
Users == 1 .. NumUsers

\* Table homes (id -> owner user_id).  Homes are created before the ledger
\* is used and are not created or deleted in this development.
homes == (1 :> 1) @@ (2 :> 2)
Homes == DOMAIN homes

\* Table home_members as it stands when the ledger is used: user 2 has
\* accepted the invitation to home 1, user 3 has not answered it yet.
InitialHomeMembers ==
    { [home_id |-> 1, user_id |-> 2, status |-> "accepted"],
      [home_id |-> 1, user_id |-> 3, status |-> "pending"] }

\* The owner of home 1 is family of its two invited users.
InitialFamilies ==
    { [requester_id |-> 1, recipient_id |-> 2, status |-> "accepted"],
      [requester_id |-> 3, recipient_id |-> 1, status |-> "accepted"] }

AcceptedMembers(h) ==
    { m.user_id : m \in { x \in homeMembers : x.home_id = h /\ x.status = "accepted" } }

\* checkHomeAccess does not throw: the home exists and the user owns it or
\* is an accepted member of it.
checkHomeAccess(h, u) ==
    /\ h \in Homes
    /\ (homes[h] = u \/ u \in AcceptedMembers(h))

\* Faulty variant of checkHomeOwner: an accepted member passes as well.
checkHomeOwnerOrMember(h, u) ==
    /\ h \in Homes
    /\ (homes[h] = u \/ u \in AcceptedMembers(h))

\* checkHomeOwner does not throw.
checkHomeOwner(h, u) == h \in Homes /\ homes[h] = u

\* Faulty variant of validUserIds: the query does not select on
\* status = 'accepted', an invited user passes.
validUserIdsAnyStatus(h, ids) ==
    { u \in ids : \/ \E m \in homeMembers : m.home_id = h /\ m.user_id = u
                  \/ (h \in Homes /\ homes[h] = u) }

\* The ids of visible_to_user_ids that are accepted members or the owner
\* (the UNION query of the create and update routes).
validUserIds(h, ids) ==
    { u \in ids : u \in AcceptedMembers(h) \/ (h \in Homes /\ homes[h] = u) }

-----------------------------------------------------------------------------
(* Server: the month arithmetic of the balance route.                      *)

\* parseDateParts: null (NoDate) for a missing date, else the date's parts, of
\* which only year and month are read.
parseDateParts(dateValue) == dateValue

getMonthIndex(parts) == parts.year * 12 + (parts.month - 1)

\* The payment-plan branch: the share of a row with payment_months > 1.
planContribution(record, decodedAmount, selectedMonthIndex) ==
    LET transactionIndex == getMonthIndex(parseDateParts(record.transaction_date))
        monthsDiff == selectedMonthIndex - transactionIndex
    IN  IF monthsDiff >= 0 /\ monthsDiff < record.payment_months
        THEN RatDivInt(decodedAmount, record.payment_months)
        ELSE RatInt(0)

\* Faulty variant of inDueRange: the due month itself is left out.
inDueRangeExclusive(record, selectedMonthIndex) ==
    LET transactionIndex == getMonthIndex(parseDateParts(record.transaction_date))
        dueParts == parseDateParts(record.due_date)
    IN  /\ dueParts # NoDate
        /\ selectedMonthIndex >= transactionIndex
        /\ selectedMonthIndex < getMonthIndex(dueParts)

\* The due-date branch is taken: the row has a due date and the selected
\* month lies between the transaction month and the due month.
inDueRange(record, selectedMonthIndex) ==
    LET transactionIndex == getMonthIndex(parseDateParts(record.transaction_date))
        dueParts == parseDateParts(record.due_date)
    IN  /\ dueParts # NoDate
        /\ selectedMonthIndex >= transactionIndex
        /\ selectedMonthIndex <= getMonthIndex(dueParts)

\* Faulty variant of calculateMonthlyContribution: the recurring branch is
\* missing, so a recurring row counts in its transaction month only.
calculateMonthlyContributionOnce(record, decodedAmount, selectedMonthIndex) ==
    LET transactionParts == parseDateParts(record.transaction_date)
        paymentMonths == IF record.payment_months # NoMonths
                         THEN record.payment_months ELSE 0
    IN  IF transactionParts = NoDate THEN RatInt(0)
        ELSE IF paymentMonths # 0 /\ paymentMonths > 1
        THEN planContribution(record, decodedAmount, selectedMonthIndex)
        ELSE IF inDueRange(record, selectedMonthIndex) THEN decodedAmount
        ELSE IF selectedMonthIndex = getMonthIndex(transactionParts) THEN decodedAmount
        ELSE RatInt(0)

\* Faulty variant of calculateMonthlyContribution: the month of a plain row
\* is compared one-based against the zero-based selected month.
calculateMonthlyContributionShifted(record, decodedAmount, selectedMonthIndex) ==
    LET transactionParts == parseDateParts(record.transaction_date)
        paymentMonths == IF record.payment_months # NoMonths
                         THEN record.payment_months ELSE 0
    IN  IF transactionParts = NoDate THEN RatInt(0)
        ELSE IF paymentMonths # 0 /\ paymentMonths > 1
        THEN planContribution(record, decodedAmount, selectedMonthIndex)
        ELSE IF inDueRange(record, selectedMonthIndex) THEN decodedAmount
        ELSE IF record.is_recurring THEN decodedAmount
        ELSE IF selectedMonthIndex = getMonthIndex(transactionParts) + 1 THEN decodedAmount
        ELSE RatInt(0)

\* The contribution of one row to the selected month.
calculateMonthlyContribution(record, decodedAmount, selectedMonthIndex) ==
    LET transactionParts == parseDateParts(record.transaction_date)
        paymentMonths == IF record.payment_months # NoMonths
                         THEN record.payment_months ELSE 0
    IN  IF transactionParts = NoDate THEN RatInt(0)
        ELSE IF paymentMonths # 0 /\ paymentMonths > 1
        THEN planContribution(record, decodedAmount, selectedMonthIndex)
        ELSE IF inDueRange(record, selectedMonthIndex) THEN decodedAmount
        ELSE IF record.is_recurring THEN decodedAmount
        ELSE IF selectedMonthIndex = getMonthIndex(transactionParts) THEN decodedAmount
        ELSE RatInt(0)

\* An amount column that holds no number: the text of an encrypted amount,
\* left in a TEXT column when the migration to DECIMAL has failed.  It is
\* told apart from the stored numbers, which are products of obfuscate.
UndecodableAmount == -1

\* parseFloat of the amount column: the stored number (in obfuscated cents),
\* or NaN for a text that is no number.  parseFloat does not throw.
parseFloat(storedAmount) ==
    IF storedAmount = UndecodableAmount THEN NaN ELSE RatInt(storedAmount)

\* Reading an amount: parseFloat(amount) / AMOUNT_OBFUSCATION_FACTOR.
deobfuscate(storedAmount) ==
    RatDivInt(parseFloat(storedAmount), AMOUNT_OBFUSCATION_FACTOR)

\* Writing an amount: parseFloat(amount) * AMOUNT_OBFUSCATION_FACTOR, stored
\* in a DECIMAL(15, 2) column (a whole number of stored cents).
obfuscate(amount) == amount * AMOUNT_OBFUSCATION_FACTOR

\* Faulty variant of monthYearFilter: the WHERE clause has no due-date range
\* condition.
monthYearFilterNoDueRange(row, month, year) ==
    \/ (row.transaction_date.month = month /\ row.transaction_date.year = year)
    \/ row.is_recurring
    \/ (row.payment_months # NoMonths /\ row.payment_months > 1)

\* The WHERE clause on month and year shared by the list and balance queries.
monthYearFilter(row, month, year) ==
    LET target == year * 12 + (month - 1)
        txIndex == row.transaction_date.year * 12 + (row.transaction_date.month - 1)
    IN  \/ (row.transaction_date.month = month /\ row.transaction_date.year = year)
        \/ row.is_recurring
        \/ (row.payment_months # NoMonths /\ row.payment_months > 1)
        \/ /\ row.due_date # NoDate
           /\ row.due_date.year * 12 + (row.due_date.month - 1) >= target
           /\ txIndex <= target

\* Faulty variant of visibleFinanceIds: the WHERE clause has no visibility
\* condition, every row of the home is selected.
visibleFinanceIdsOfHome(h, u) ==
    { id \in DOMAIN homeFinances : homeFinances[id].home_id = h }

\* LEFT JOIN home_finance_visibility hfv ON hf.id = hfv.finance_id AND
\* hfv.user_id = ?, then WHERE hf.home_id = ? AND (hf.created_by = ? OR
\* hfv.user_id = ?): the ids of the selected rows.  The unique key
\* (finance_id, user_id) makes the join yield one row per finance.
visibleFinanceIds(h, u) ==
    { id \in DOMAIN homeFinances :
        /\ homeFinances[id].home_id = h
        /\ (homeFinances[id].created_by = u \/ <<id, u>> \in financeVisibility) }

-----------------------------------------------------------------------------
(* Server: GET /api/homes/:id/finances and GET .../finances/balance.       *)

DateKey(d) == (d.year * 12 + (d.month - 1)) * 32 + d.day

\* ORDER BY hf.transaction_date DESC, hf.created_at DESC: the row that comes
\* first among ids (a later insert has the later created_at and the larger id).
FirstRow(ids) ==
    CHOOSE id \in ids : \A other \in ids :
        \/ DateKey(homeFinances[id].transaction_date)
              > DateKey(homeFinances[other].transaction_date)
        \/ /\ DateKey(homeFinances[id].transaction_date)
                = DateKey(homeFinances[other].transaction_date)
           /\ id >= other

RECURSIVE OrderRows(_)
OrderRows(ids) ==
    IF ids = {} THEN <<>>
    ELSE LET first == FirstRow(ids)
         IN  <<first>> \o OrderRows(ids \ {first})

\* The ids the list query selects, in its order.  type = "all" and
\* month = 0 / year = 0 stand for an absent query parameter.
listQuery(h, u, type, month, year) ==
    OrderRows({ id \in visibleFinanceIds(h, u) :
        /\ (type # "all" => homeFinances[id].type = type)
        /\ (month # 0 /\ year # 0 => monthYearFilter(homeFinances[id], month, year)) })

\* One element of processedFinances: the row with its amount deobfuscated,
\* its visibility ids, and, for a recurring row under a month and year, its
\* transaction_date moved into the selected month.
processFinance(id, month, year) ==
    LET row == homeFinances[id]
        reproject == row.is_recurring /\ month # 0 /\ year # 0
    IN  [ id |-> id,
          home_id |-> row.home_id,
          type |-> row.type,
          amount |-> deobfuscate(row.amount),
          transaction_date |->
              IF reproject THEN JsDate(year, month, row.transaction_date.day)
              ELSE row.transaction_date,
          is_recurring |-> row.is_recurring,
          created_by |-> row.created_by,
          due_date |-> row.due_date,
          payment_months |-> row.payment_months,
          visible_to_user_ids |-> { v[2] : v \in { x \in financeVisibility : x[1] = id } },
          is_recurring_display |-> reproject,
          original_finance_id |-> 0,
          payment_month_index |-> 0 ]

\* The list route: 403 without access, else the processed rows.
getFinances(h, u, type, month, year) ==
    IF ~checkHomeAccess(h, u)
    THEN [kind |-> "list", user |-> u, home |-> h, month |-> month, year |-> year,
          status |-> 403, body |-> <<>>]
    ELSE LET ids == listQuery(h, u, type, month, year)
         IN  [kind |-> "list", user |-> u, home |-> h, month |-> month, year |-> year,
              status |-> 200,
              body |-> [i \in 1 .. Len(ids) |-> processFinance(ids[i], month, year)]]

\* Faulty variant of balanceQuery: the query does not select on type.
balanceQueryAnyType(h, u, type, month, year) ==
    { id \in visibleFinanceIds(h, u) :
        monthYearFilter(homeFinances[id], month, year) }

\* The rows one of the two balance queries selects (type is income or expense).
balanceQuery(h, u, type, month, year) ==
    { id \in visibleFinanceIds(h, u) :
        /\ homeFinances[id].type = type
        /\ monthYearFilter(homeFinances[id], month, year) }

\* The summing loop of the balance route over the rows of one query.
RECURSIVE sumContributions(_, _)
sumContributions(ids, selectedMonthIndex) ==
    IF ids = {} THEN RatInt(0)
    ELSE LET id == CHOOSE x \in ids : TRUE
             decodedAmount == deobfuscate(homeFinances[id].amount)
         IN  RatAdd(calculateMonthlyContribution(homeFinances[id], decodedAmount,
                                                 selectedMonthIndex),
                    sumContributions(ids \ {id}, selectedMonthIndex))

NoSummary == [month |-> 0, year |-> 0, total_income |-> RatInt(0),
              total_expenses |-> RatInt(0), balance |-> RatInt(0)]

\* The balance route: 400 without month or year, 403 without access, else
\* the summary of the selected month.
getBalance(h, u, month, year) ==
    IF month = 0 \/ year = 0
    THEN [kind |-> "balance", user |-> u, home |-> h, month |-> month, year |-> year,
          status |-> 400, body |-> NoSummary]
    ELSE IF ~checkHomeAccess(h, u)
    THEN [kind |-> "balance", user |-> u, home |-> h, month |-> month, year |-> year,
          status |-> 403, body |-> NoSummary]
    ELSE LET selectedMonthIndex == year * 12 + (month - 1)
             totalIncome == sumContributions(balanceQuery(h, u, "income", month, year),
                                             selectedMonthIndex)
             totalExpenses == sumContributions(balanceQuery(h, u, "expense", month, year),
                                               selectedMonthIndex)
         IN  [kind |-> "balance", user |-> u, home |-> h, month |-> month, year |-> year,
              status |-> 200,
              body |-> [month |-> month, year |-> year,
                        total_income |-> totalIncome,
                        total_expenses |-> totalExpenses,
                        balance |-> RatSub(totalIncome, totalExpenses)]]

-----------------------------------------------------------------------------
(* Client: FinancesComponent, the list projector.                          *)

\* getDateParts: the parts of a date string; an absent date gives the
\* current year and month and day 1.
getDateParts(dateString, curYear, curMonth) ==
    IF dateString = NoDate THEN Date(curYear, curMonth, 1)
    ELSE dateString

Min(a, b) == IF a < b THEN a ELSE b
Max(a, b) == IF a > b THEN a ELSE b

\* Faulty variant of formatDate: the day is not clamped.
formatDateUnclamped(year, month, day) ==
    Date(year, Min(Max(month, 1), 12), day)

\* formatDate: the month clamped to 1..12 and the day to 1..28.
formatDate(year, month, day) ==
    Date(year, Min(Max(month, 1), 12), Min(Max(day, 1), 28))

\* FinancesComponent.getMonthIndex(year, month).
componentMonthIndex(year, month) == year * 12 + (month - 1)

getMonthDiff(start, end) ==
    componentMonthIndex(end.year, end.month) - componentMonthIndex(start.year, start.month)

\* getMonthlyAmount: total / months rounded to two decimals (whole cents).
getMonthlyAmount(total, months) ==
    IF months = NoMonths \/ months <= 0 THEN total
    ELSE RatInt(MathRound(RatDivInt(total, months)))

\* The locals of one turn of the loop of processFinancesForDisplay.
transactionPartsOf(finance, curYear, curMonth) ==
    getDateParts(finance.transaction_date, curYear, curMonth)

duePartsOf(finance, curYear, curMonth) ==
    IF finance.due_date # NoDate THEN getDateParts(finance.due_date, curYear, curMonth)
    ELSE NoDate

displayDayOf(finance, curYear, curMonth) ==
    LET transactionParts == transactionPartsOf(finance, curYear, curMonth)
        dueParts == duePartsOf(finance, curYear, curMonth)
    IN  IF dueParts # NoDate /\ dueParts.day # 0 THEN dueParts.day
        ELSE IF transactionParts.day # 0 THEN transactionParts.day
        ELSE 1

hasPaymentMonths(finance) ==
    finance.payment_months # NoMonths /\ finance.payment_months > 1

planMonthsOf(finance, curYear, curMonth) ==
    LET transactionParts == transactionPartsOf(finance, curYear, curMonth)
        dueParts == duePartsOf(finance, curYear, curMonth)
        dueMonths == IF dueParts # NoDate THEN getMonthDiff(transactionParts, dueParts) + 1
                     ELSE 1
    IN  IF hasPaymentMonths(finance) THEN finance.payment_months
        ELSE IF dueMonths > 1 THEN dueMonths ELSE 1

monthsDiffOf(finance, curYear, curMonth) ==
    LET transactionParts == transactionPartsOf(finance, curYear, curMonth)
    IN  componentMonthIndex(curYear, curMonth)
           - componentMonthIndex(transactionParts.year, transactionParts.month)

\* 1) Payment plan or due-date range: the condition and the entry pushed.
inPlan(finance, curYear, curMonth) ==
    LET planMonths == planMonthsOf(finance, curYear, curMonth)
        monthsDiff == monthsDiffOf(finance, curYear, curMonth)
    IN  planMonths > 1 /\ monthsDiff >= 0 /\ monthsDiff < planMonths

spreadFinance(finance, curYear, curMonth) ==
    LET monthsDiff == monthsDiffOf(finance, curYear, curMonth)
        originalId == IF finance.original_finance_id # 0 THEN finance.original_finance_id
                      ELSE finance.id
    IN  [finance EXCEPT
           !.original_finance_id = originalId,
           !.id = originalId * 1000 + (monthsDiff + 1),
           !.amount = IF hasPaymentMonths(finance)
                      THEN getMonthlyAmount(finance.amount, finance.payment_months)
                      ELSE finance.amount,
           !.transaction_date = formatDate(curYear, curMonth,
                                           displayDayOf(finance, curYear, curMonth)),
           !.payment_months = planMonthsOf(finance, curYear, curMonth),
           !.payment_month_index = monthsDiff + 1]

\* 2) Recurring entries: the entry pushed.
recurringDisplay(finance, curYear, curMonth) ==
    [finance EXCEPT
       !.transaction_date = formatDate(curYear, curMonth,
                                       displayDayOf(finance, curYear, curMonth))]

\* 3) Regular single-month entries: the entry pushed.
regularDisplay(finance, curYear, curMonth) ==
    LET transactionParts == transactionPartsOf(finance, curYear, curMonth)
    IN  [finance EXCEPT
           !.transaction_date = formatDate(transactionParts.year, transactionParts.month,
                                           displayDayOf(finance, curYear, curMonth))]

\* Faulty variant of displayEntries: the plan branch does not end the
\* iteration, so a recurring finance in its plan gets a second entry.
displayEntriesFallThrough(finance, curYear, curMonth) ==
    (IF inPlan(finance, curYear, curMonth)
     THEN << spreadFinance(finance, curYear, curMonth) >> ELSE <<>>)
    \o (IF finance.is_recurring
        THEN << recurringDisplay(finance, curYear, curMonth) >>
        ELSE IF monthsDiffOf(finance, curYear, curMonth) = 0
                /\ ~inPlan(finance, curYear, curMonth)
        THEN << regularDisplay(finance, curYear, curMonth) >>
        ELSE <<>>)

\* The body of the loop of processFinancesForDisplay: what one finance of
\* the loaded list adds to the displayed list (nothing or one entry).
displayEntries(finance, curYear, curMonth) ==
    IF inPlan(finance, curYear, curMonth)
    THEN << spreadFinance(finance, curYear, curMonth) >>
    ELSE IF finance.is_recurring
    THEN << recurringDisplay(finance, curYear, curMonth) >>
    ELSE IF monthsDiffOf(finance, curYear, curMonth) = 0
    THEN << regularDisplay(finance, curYear, curMonth) >>
    ELSE <<>>

\* Array.prototype.sort (stable) with the comparator dateB - dateA: a new
\* entry goes behind the entries whose date is not earlier than its own.
RECURSIVE insertByDate(_, _)
insertByDate(sorted, entry) ==
    IF sorted = <<>> THEN <<entry>>
    ELSE IF DateKey(Head(sorted).transaction_date) >= DateKey(entry.transaction_date)
    THEN <<Head(sorted)>> \o insertByDate(Tail(sorted), entry)
    ELSE <<entry>> \o sorted

RECURSIVE sortByDateDesc(_)
sortByDateDesc(list) ==
    IF list = <<>> THEN <<>>
    ELSE insertByDate(sortByDateDesc(SubSeq(list, 1, Len(list) - 1)), list[Len(list)])

RECURSIVE pushAll(_, _, _)
pushAll(allFinances, curYear, curMonth) ==
    IF allFinances = <<>> THEN <<>>
    ELSE displayEntries(Head(allFinances), curYear, curMonth)
            \o pushAll(Tail(allFinances), curYear, curMonth)

processFinancesForDisplay(allFinances, curYear, curMonth) ==
    sortByDateDesc(pushAll(allFinances, curYear, curMonth))

-----------------------------------------------------------------------------
(* Client: the handlers of FinancesComponent.  A request, the server's     *)
(* handling of it and the response callback are taken in one step.         *)

\* The months the client may show: NumMonths months from November 2023.
NumMonths == 8
FirstTargetIndex == componentMonthIndex(2023, 11)
TargetIndexes == FirstTargetIndex .. FirstTargetIndex + NumMonths - 1
MonthOf(index) == (index % 12) + 1
YearOf(index) == index \div 12

\* loadFinances with the month and year given: the finances and the
\* displayed list after the response (kept on an error response).
loadedFinances(month, year, type) ==
    LET r == getFinances(homeId, authUser, type, month, year)
    IN  IF r.status = 200 THEN r.body ELSE finances

loadedDisplay(month, year, type) ==
    LET r == getFinances(homeId, authUser, type, month, year)
    IN  IF r.status = 200 THEN processFinancesForDisplay(r.body, year, month)
        ELSE displayedFinances

\* loadBalance: the balance after the response (kept on an error response).
loadedBalance(month, year) ==
    LET r == getBalance(homeId, authUser, month, year)
    IN  IF r.status = 200 THEN r.body ELSE balance

ngOnInit ==
    /\ homeId # 0
    /\ finances' = loadedFinances(currentMonth, currentYear, selectedType)
    /\ displayedFinances' = loadedDisplay(currentMonth, currentYear, selectedType)
    /\ balance' = loadedBalance(currentMonth, currentYear)
    /\ UNCHANGED <<serverVars, response, authUser, homeId, currentMonth, currentYear,
                   selectedType,
                   editingFinance, financeForm, concurrentVars>>

changeMonth(direction) ==
    LET month == IF direction = "prev"
                 THEN (IF currentMonth - 1 < 1 THEN 12 ELSE currentMonth - 1)
                 ELSE (IF currentMonth + 1 > 12 THEN 1 ELSE currentMonth + 1)
        year  == IF direction = "prev"
                 THEN (IF currentMonth - 1 < 1 THEN currentYear - 1 ELSE currentYear)
                 ELSE (IF currentMonth + 1 > 12 THEN currentYear + 1 ELSE currentYear)
    IN  /\ componentMonthIndex(year, month) \in TargetIndexes
        /\ currentMonth' = month
        /\ currentYear' = year
        /\ finances' = loadedFinances(month, year, selectedType)
        /\ displayedFinances' = loadedDisplay(month, year, selectedType)
        /\ balance' = loadedBalance(month, year)
        /\ UNCHANGED <<serverVars, response, authUser, homeId, selectedType,
                   editingFinance, financeForm, concurrentVars>>

setType(type) ==
    /\ selectedType' = type
    /\ finances' = loadedFinances(currentMonth, currentYear, type)
    /\ displayedFinances' = loadedDisplay(currentMonth, currentYear, type)
    /\ UNCHANGED <<serverVars, response, authUser, homeId, currentMonth, currentYear,
                   balance,
                   editingFinance, financeForm, concurrentVars>>

-----------------------------------------------------------------------------
(* The client over a ledger that holds one record: every combination of    *)
(* the record's fields within the bounds, every month the client may show. *)

MaxPaymentMonths == 3
MaxDueSpan == 2

Amounts == {120000, 10000, 5000}
TransactionDates == { Date(2023, 12, 31), Date(2024, 1, 15), Date(2024, 3, 15) }

\* Due dates around a transaction date: from the month before it to
\* MaxDueSpan months after it, on the 10th.
DueDates(transactionDate) ==
    LET t == componentMonthIndex(transactionDate.year, transactionDate.month)
    IN  {NoDate} \cup { Date(YearOf(t + k), MonthOf(t + k), 10) : k \in -1 .. MaxDueSpan }

NoResponse == [kind |-> "none", user |-> 0, home |-> 0, month |-> 0, year |-> 0,
               status |-> 0, body |-> <<>>]

\* The rows the owner of home 1 can have stored with one create request.
LedgerRecords ==
    UNION { { [home_id |-> 1, type |-> ty, amount |-> obfuscate(a),
               transaction_date |-> td, is_recurring |-> rec, created_by |-> homes[1],
               due_date |-> dd, payment_months |-> pm] :
                ty \in {"income", "expense"}, a \in Amounts, rec \in BOOLEAN,
                dd \in DueDates(td), pm \in {NoMonths} \cup 1 .. MaxPaymentMonths } :
            td \in TransactionDates }

ClientInit ==
    /\ \E r \in LedgerRecords : homeFinances = (1 :> r)
    /\ financeVisibility = {}
    /\ nextFinanceId = 2
    /\ homeMembers = InitialHomeMembers
    /\ families = InitialFamilies
    /\ response = NoResponse
    /\ authUser = homes[1]
    /\ homeId = 1
    /\ \E t \in TargetIndexes : currentMonth = MonthOf(t) /\ currentYear = YearOf(t)
    /\ selectedType = "all"
    /\ finances = <<>>
    /\ displayedFinances = <<>>
    /\ balance = NoSummary
    /\ editingFinance = NoFinance
    /\ financeForm = NoForm
    /\ shoppingLists = {}
    /\ inFlight = {}

ClientNext ==
    \/ ngOnInit
    \/ \E direction \in {"prev", "next"} : changeMonth(direction)
    \/ \E type \in {"all", "income", "expense"} : setType(type)

ClientSpec == ClientInit /\ [][ClientNext]_vars

-----------------------------------------------------------------------------
(* Server: the write routes.  A request body names the fields it provides  *)
(* (an absent field is undefined).  The server takes the requests one at   *)
(* a time: a handler runs from its first line to its res.json in one step, *)
(* and the next request is taken once the response has been delivered.     *)

MaxFinances == 2

writeResponse(kind, u, h, status) ==
    [kind |-> kind, user |-> u, home |-> h, month |-> 0, year |-> 0,
     status |-> status, body |-> <<>>]

\* POST /api/homes/:id/finances
createStatus(u, h, body) ==
    IF body.type = "" \/ body.amount = 0 \/ body.transaction_date = NoDate THEN 400
    ELSE IF body.type \notin {"income", "expense"} THEN 400
    ELSE IF ~checkHomeAccess(h, u) THEN 403
    ELSE IF ~checkHomeOwner(h, u) THEN 403
    ELSE IF body.visible_to_user_ids # {}
            /\ validUserIds(h, body.visible_to_user_ids) # body.visible_to_user_ids
    THEN 400
    ELSE IF body.payment_months # NoMonths /\ body.payment_months < 1 THEN 400
    ELSE 201

createFinance(u, h, body) ==
    LET status == createStatus(u, h, body)
        financeId == nextFinanceId
    IN  /\ response = NoResponse
        /\ nextFinanceId <= MaxFinances
        /\ response' = writeResponse("create", u, h, status)
        /\ IF status = 201
           THEN /\ homeFinances' = homeFinances @@
                     (financeId :> [home_id |-> h, type |-> body.type,
                                    amount |-> obfuscate(body.amount),
                                    transaction_date |-> body.transaction_date,
                                    is_recurring |-> body.is_recurring,
                                    created_by |-> u,
                                    due_date |-> body.due_date,
                                    payment_months |-> body.payment_months])
                /\ financeVisibility' = financeVisibility \cup
                     { <<financeId, v>> : v \in body.visible_to_user_ids }
                /\ nextFinanceId' = nextFinanceId + 1
           ELSE UNCHANGED <<homeFinances, financeVisibility, nextFinanceId>>
        /\ UNCHANGED <<homeMembers, families, clientVars, concurrentVars>>

\* PUT /api/homes/:id/finances/:financeId: the status of the response.
updateStatus(u, h, financeId, body) ==
    IF ~checkHomeAccess(h, u) THEN 403
    ELSE IF ~checkHomeOwner(h, u) THEN 403
    ELSE IF ~(financeId \in DOMAIN homeFinances /\ homeFinances[financeId].home_id = h)
    THEN 404
    ELSE IF "payment_months" \in body.provided
            /\ body.payment_months # NoMonths /\ body.payment_months < 1 THEN 400
    ELSE IF "type" \in body.provided /\ body.type \notin {"income", "expense"} THEN 400
    ELSE IF "visible_to_user_ids" \in body.provided
            /\ body.visible_to_user_ids # {}
            /\ validUserIds(h, body.visible_to_user_ids) # body.visible_to_user_ids
    THEN 400
    ELSE 200

\* The UPDATE home_finances statement built from the provided fields.
updatedRow(row, body) ==
    [row EXCEPT
       !.type = IF "type" \in body.provided THEN body.type ELSE @,
       !.amount = IF "amount" \in body.provided THEN obfuscate(body.amount) ELSE @,
       !.transaction_date = IF "transaction_date" \in body.provided
                            THEN body.transaction_date ELSE @,
       !.is_recurring = IF "is_recurring" \in body.provided THEN body.is_recurring ELSE @,
       !.due_date = IF "due_date" \in body.provided THEN body.due_date ELSE @,
       !.payment_months = IF "payment_months" \in body.provided
                          THEN body.payment_months ELSE @]

\* The UPDATE runs once the request has passed the checks on the finance,
\* payment_months and type; visible_to_user_ids is verified after it.
rowIsUpdated(u, h, financeId, body) ==
    /\ checkHomeAccess(h, u)
    /\ checkHomeOwner(h, u)
    /\ financeId \in DOMAIN homeFinances
    /\ homeFinances[financeId].home_id = h
    /\ ~("payment_months" \in body.provided
            /\ body.payment_months # NoMonths /\ body.payment_months < 1)
    /\ ~("type" \in body.provided /\ body.type \notin {"income", "expense"})

\* Faulty variant of replacedVisibility: the DELETE of the existing rows is
\* missing.
addedVisibility(financeId, body) ==
    financeVisibility \cup { <<financeId, v>> : v \in body.visible_to_user_ids }

\* DELETE FROM home_finance_visibility WHERE finance_id = ?, then one INSERT
\* per id of visible_to_user_ids.
replacedVisibility(financeId, body) ==
    { x \in financeVisibility : x[1] # financeId }
        \cup { <<financeId, v>> : v \in body.visible_to_user_ids }

updateFinance(u, h, financeId, body) ==
    LET status == updateStatus(u, h, financeId, body)
    IN  /\ response = NoResponse
        /\ response' = writeResponse("update", u, h, status)
        /\ homeFinances' =
              IF rowIsUpdated(u, h, financeId, body)
              THEN [homeFinances EXCEPT ![financeId] = updatedRow(@, body)]
              ELSE homeFinances
        /\ financeVisibility' =
              IF status = 200 /\ "visible_to_user_ids" \in body.provided
              THEN replacedVisibility(financeId, body)
              ELSE financeVisibility
        /\ UNCHANGED <<nextFinanceId, homeMembers, families, clientVars, concurrentVars>>

\* DELETE /api/homes/:id/finances/:financeId
deleteStatus(u, h, financeId) ==
    IF ~checkHomeAccess(h, u) THEN 403
    ELSE IF ~checkHomeOwner(h, u) THEN 403
    ELSE IF ~(financeId \in DOMAIN homeFinances /\ homeFinances[financeId].home_id = h)
    THEN 404
    ELSE 200

deleteFinance(u, h, financeId) ==
    LET status == deleteStatus(u, h, financeId)
    IN  /\ response = NoResponse
        /\ response' = writeResponse("delete", u, h, status)
        /\ IF status = 200
           THEN /\ homeFinances' = [id \in DOMAIN homeFinances \ {financeId} |->
                                       homeFinances[id]]
                \* FOREIGN KEY (finance_id) ... ON DELETE CASCADE
                /\ financeVisibility' = { x \in financeVisibility : x[1] # financeId }
           ELSE UNCHANGED <<homeFinances, financeVisibility>>
        /\ UNCHANGED <<nextFinanceId, homeMembers, families, clientVars, concurrentVars>>

\* The read routes, called directly.
listFinances(u, h, type, month, year) ==
    /\ response = NoResponse
    /\ response' = getFinances(h, u, type, month, year)
    /\ UNCHANGED <<serverVars, clientVars, concurrentVars>>

readBalance(u, h, month, year) ==
    /\ response = NoResponse
    /\ response' = getBalance(h, u, month, year)
    /\ UNCHANGED <<serverVars, clientVars, concurrentVars>>

\* res.json(...) has reached the caller.
responseDelivered ==
    /\ response # NoResponse
    /\ response' = NoResponse
    /\ UNCHANGED <<serverVars, clientVars, concurrentVars>>

-----------------------------------------------------------------------------
(* The server under requests of every user: the ledger starts empty.       *)

requestBody(type, amount, date, recurring, due, months) ==
    [type |-> type, amount |-> amount, transaction_date |-> date,
     is_recurring |-> recurring, due_date |-> due, payment_months |-> months,
     visible_to_user_ids |-> {}, provided |-> {}]

\* The records of the balance scenario: a one-time income of 1200 and an
\* expense of 50 recurring from March 2024.
ScenarioBodies ==
    { requestBody("income", 120000, Date(2024, 3, 15), FALSE, NoDate, NoMonths),
      requestBody("expense", 5000, Date(2024, 3, 1), TRUE, NoDate, NoMonths) }

VisibilityInputs == { {}, {2}, {3} }

CreateBodies ==
    { [b EXCEPT !.visible_to_user_ids = v] : b \in ScenarioBodies, v \in VisibilityInputs }

UpdateBodies ==
    LET b == requestBody("expense", 7500, Date(2024, 5, 20), TRUE, NoDate, 3)
    IN  { [b EXCEPT !.provided = {"amount", "payment_months", "visible_to_user_ids"},
                    !.visible_to_user_ids = {2}],
          [b EXCEPT !.provided = {"visible_to_user_ids"}] }

\* The months the read requests ask for; <<0, 0>> is a list request without
\* month and year.
ReadMonths == { <<3, 2024>>, <<5, 2024>> }

FinanceIds == 1 .. MaxFinances

Init ==
    /\ homeFinances = <<>>
    /\ financeVisibility = {}
    /\ nextFinanceId = 1
    /\ homeMembers = InitialHomeMembers
    /\ families = InitialFamilies
    /\ response = NoResponse
    /\ authUser = homes[1]
    /\ homeId = 1
    /\ currentMonth = 3
    /\ currentYear = 2024
    /\ selectedType = "all"
    /\ finances = <<>>
    /\ displayedFinances = <<>>
    /\ balance = NoSummary
    /\ editingFinance = NoFinance
    /\ financeForm = NoForm
    /\ shoppingLists = {}
    /\ inFlight = {}

Next ==
    \/ \E u \in Users, h \in Homes, body \in CreateBodies : createFinance(u, h, body)
    \/ \E u \in Users, h \in Homes, id \in FinanceIds, body \in UpdateBodies :
          updateFinance(u, h, id, body)
    \/ \E u \in Users, h \in Homes, id \in FinanceIds : deleteFinance(u, h, id)
    \/ \E u \in Users, h \in Homes, m \in {<<5, 2024>>, <<0, 0>>} :
          listFinances(u, h, "all", m[1], m[2])
    \/ \E u \in Users, h \in Homes, m \in ReadMonths : readBalance(u, h, m[1], m[2])
    \/ responseDelivered

Spec == Init /\ [][Next]_vars

-----------------------------------------------------------------------------
(* WriteSpec: the write routes alone, under request bodies that the        *)
(* validation of the routes is there to refuse.                            *)

\* Create requests: the recurring expense of 50 under each visibility input,
\* and an expense of -50.
WriteCreateBodies ==
    LET b == requestBody("expense", 5000, Date(2024, 3, 1), TRUE, NoDate, NoMonths)
    IN  { [b EXCEPT !.visible_to_user_ids = v] : v \in VisibilityInputs }
           \cup { [b EXCEPT !.amount = 0 - 5000] }

\* Update requests: a new amount and plan with the member 2 made visible, no
\* user visible, a new amount with the pending member 3 made visible, a new
\* amount and plan without visible_to_user_ids, and a new amount of 0.
WriteUpdateBodies ==
    UpdateBodies \cup
    LET b == requestBody("expense", 7500, Date(2024, 5, 20), TRUE, NoDate, 3)
    IN  { [b EXCEPT !.provided = {"amount", "visible_to_user_ids"},
                    !.visible_to_user_ids = {3}],
          [b EXCEPT !.provided = {"amount", "payment_months"}],
          [b EXCEPT !.provided = {"amount"}, !.amount = 0] }

WriteNext ==
    \/ \E u \in Users, h \in Homes, body \in WriteCreateBodies : createFinance(u, h, body)
    \/ \E u \in Users, h \in Homes, id \in FinanceIds, body \in WriteUpdateBodies :
          updateFinance(u, h, id, body)
    \/ \E u \in Users, h \in Homes, id \in FinanceIds : deleteFinance(u, h, id)
    \/ responseDelivered

WriteSpec == Init /\ [][WriteNext]_vars

-----------------------------------------------------------------------------
(* Server: the family and home-member routes.  A family row and a member   *)
(* row are named by their unique keys (requester, recipient) and           *)
(* (home, user) in place of their AUTO_INCREMENT ids.                      *)

familyRows(a, b) ==
    { f \in families : \/ (f.requester_id = a /\ f.recipient_id = b)
                        \/ (f.requester_id = b /\ f.recipient_id = a) }

\* POST /api/families/request: the recipient is the user of the email.
requestFamilyStatus(u, recipientId) ==
    IF recipientId = u THEN 400
    ELSE IF familyRows(u, recipientId) # {} THEN 400
    ELSE 201

requestFamily(u, recipientId) ==
    LET status == requestFamilyStatus(u, recipientId)
    IN  /\ response = NoResponse
        /\ response' = writeResponse("family_request", u, 0, status)
        /\ families' =
              IF status = 201
              THEN families \cup { [requester_id |-> u, recipient_id |-> recipientId,
                                    status |-> "pending"] }
              ELSE families
        /\ UNCHANGED <<homeFinances, financeVisibility, nextFinanceId, homeMembers,
                       clientVars, concurrentVars>>

pendingFamily(requester, recipient) ==
    [requester_id |-> requester, recipient_id |-> recipient, status |-> "pending"]

\* PUT /api/families/:id/accept
acceptFamily(u, requester, recipient) ==
    LET found == recipient = u /\ pendingFamily(requester, recipient) \in families
    IN  /\ response = NoResponse
        /\ response' = writeResponse("family_accept", u, 0, IF found THEN 200 ELSE 404)
        /\ families' =
              IF found
              THEN (families \ { pendingFamily(requester, recipient) })
                      \cup { [requester_id |-> requester, recipient_id |-> recipient,
                               status |-> "accepted"] }
              ELSE families
        /\ UNCHANGED <<homeFinances, financeVisibility, nextFinanceId, homeMembers,
                       clientVars, concurrentVars>>

\* PUT /api/families/:id/reject
rejectFamily(u, requester, recipient) ==
    LET found == recipient = u /\ pendingFamily(requester, recipient) \in families
    IN  /\ response = NoResponse
        /\ response' = writeResponse("family_reject", u, 0, IF found THEN 200 ELSE 404)
        /\ families' = IF found THEN families \ { pendingFamily(requester, recipient) }
                       ELSE families
        /\ UNCHANGED <<homeFinances, financeVisibility, nextFinanceId, homeMembers,
                       clientVars, concurrentVars>>

\* POST /api/homes/:id/members
addMemberStatus(u, h, userId) ==
    IF h \notin Homes THEN 404
    ELSE IF homes[h] # u THEN 403
    ELSE IF userId = u THEN 400
    ELSE IF { f \in familyRows(u, userId) : f.status = "accepted" } = {} THEN 400
    ELSE IF { m \in homeMembers : m.home_id = h /\ m.user_id = userId } # {} THEN 400
    ELSE 201

addMember(u, h, userId) ==
    LET status == addMemberStatus(u, h, userId)
    IN  /\ response = NoResponse
        /\ response' = writeResponse("member_add", u, h, status)
        /\ homeMembers' =
              IF status = 201
              THEN homeMembers \cup { [home_id |-> h, user_id |-> userId,
                                       status |-> "pending"] }
              ELSE homeMembers
        /\ UNCHANGED <<homeFinances, financeVisibility, nextFinanceId, families,
                       clientVars, concurrentVars>>

pendingMember(h, userId) == [home_id |-> h, user_id |-> userId, status |-> "pending"]

\* PUT /api/homes/:id/members/:memberId/accept: memberId is the row of
\* (memberHome, memberUser).
acceptMember(u, h, memberHome, memberUser) ==
    LET found == /\ memberHome = h /\ memberUser = u
                 /\ pendingMember(h, u) \in homeMembers
    IN  /\ response = NoResponse
        /\ response' = writeResponse("member_accept", u, h, IF found THEN 200 ELSE 404)
        /\ homeMembers' =
              IF found
              THEN (homeMembers \ { pendingMember(h, u) })
                      \cup { [home_id |-> h, user_id |-> u, status |-> "accepted"] }
              ELSE homeMembers
        /\ UNCHANGED <<homeFinances, financeVisibility, nextFinanceId, families,
                       clientVars, concurrentVars>>

\* PUT /api/homes/:id/members/:memberId/reject
rejectMember(u, h, memberHome, memberUser) ==
    LET found == /\ memberHome = h /\ memberUser = u
                 /\ pendingMember(h, u) \in homeMembers
    IN  /\ response = NoResponse
        /\ response' = writeResponse("member_reject", u, h, IF found THEN 200 ELSE 404)
        /\ homeMembers' = IF found THEN homeMembers \ { pendingMember(h, u) }
                          ELSE homeMembers
        /\ UNCHANGED <<homeFinances, financeVisibility, nextFinanceId, families,
                       clientVars, concurrentVars>>

-----------------------------------------------------------------------------
(* MemberSpec: family requests, member invitations and the finance write   *)
(* routes, from empty tables.                                              *)

\* The family requests made: <<requester, recipient>>.
FamilyRequests == { <<1, 2>>, <<3, 1>> }

\* The users the owners invite.
Invited == { 2, 3 }

MemberCreateBodies ==
    LET b == requestBody("expense", 5000, Date(2024, 3, 1), TRUE, NoDate, NoMonths)
    IN  { [b EXCEPT !.visible_to_user_ids = v] : v \in VisibilityInputs }

MemberUpdateBodies ==
    LET b == requestBody("expense", 5000, Date(2024, 3, 1), TRUE, NoDate, NoMonths)
    IN  { [b EXCEPT !.provided = {"visible_to_user_ids"}, !.visible_to_user_ids = v] :
            v \in VisibilityInputs }

MemberInit ==
    /\ homeFinances = <<>>
    /\ financeVisibility = {}
    /\ nextFinanceId = 1
    /\ homeMembers = {}
    /\ families = {}
    /\ response = NoResponse
    /\ authUser = homes[1]
    /\ homeId = 1
    /\ currentMonth = 3
    /\ currentYear = 2024
    /\ selectedType = "all"
    /\ finances = <<>>
    /\ displayedFinances = <<>>
    /\ balance = NoSummary
    /\ editingFinance = NoFinance
    /\ financeForm = NoForm
    /\ shoppingLists = {}
    /\ inFlight = {}

MemberNext ==
    \/ \E r \in FamilyRequests : requestFamily(r[1], r[2])
    \/ \E u \in Users, r \in FamilyRequests : acceptFamily(u, r[1], r[2])
    \/ \E u \in Users, r \in FamilyRequests : rejectFamily(u, r[1], r[2])
    \/ \E u \in Users, h \in Homes, userId \in Invited : addMember(u, h, userId)
    \/ \E u \in Users, h \in Homes, userId \in Invited : acceptMember(u, h, h, userId)
    \/ \E u \in Users, h \in Homes, userId \in Invited : rejectMember(u, h, h, userId)
    \/ \E u \in Users, h \in Homes, body \in MemberCreateBodies : createFinance(u, h, body)
    \/ \E u \in Users, h \in Homes, id \in FinanceIds, body \in MemberUpdateBodies :
          updateFinance(u, h, id, body)
    \/ \E u \in Users, h \in Homes, id \in FinanceIds : deleteFinance(u, h, id)
    \/ responseDelivered

MemberSpec == MemberInit /\ [][MemberNext]_vars

-----------------------------------------------------------------------------
(* LegacySpec: the read routes over a ledger whose amount column is still  *)
(* TEXT: record 1 holds the text of an encrypted amount, record 2 a number. *)

storedRecord(type, storedAmount, date, recurring) ==
    [home_id |-> 1, type |-> type, amount |-> storedAmount,
     transaction_date |-> date, is_recurring |-> recurring,
     created_by |-> homes[1], due_date |-> NoDate, payment_months |-> NoMonths]

LegacyRecords ==
    { storedRecord(type, UndecodableAmount, date, recurring) :
        type \in {"income", "expense"},
        date \in { Date(2024, 3, 15), Date(2024, 5, 2) },
        recurring \in BOOLEAN }

NumericRecords ==
    { storedRecord(type, obfuscate(amount), Date(2024, 3, 1), recurring) :
        type \in {"income", "expense"}, amount \in {5000, 120000},
        recurring \in BOOLEAN }

LegacyInit ==
    /\ \E legacy \in LegacyRecords, numeric \in NumericRecords :
          homeFinances = (1 :> legacy) @@ (2 :> numeric)
    /\ financeVisibility = {}
    /\ nextFinanceId = 3
    /\ homeMembers = InitialHomeMembers
    /\ families = InitialFamilies
    /\ response = NoResponse
    /\ authUser = homes[1]
    /\ homeId = 1
    /\ currentMonth = 3
    /\ currentYear = 2024
    /\ selectedType = "all"
    /\ finances = <<>>
    /\ displayedFinances = <<>>
    /\ balance = NoSummary
    /\ editingFinance = NoFinance
    /\ financeForm = NoForm
    /\ shoppingLists = {}
    /\ inFlight = {}

LegacyNext ==
    \/ \E u \in Users, h \in Homes, m \in {<<5, 2024>>, <<0, 0>>} :
          listFinances(u, h, "all", m[1], m[2])
    \/ \E u \in Users, h \in Homes, m \in ReadMonths : readBalance(u, h, m[1], m[2])
    \/ responseDelivered

LegacySpec == LegacyInit /\ [][LegacyNext]_vars

-----------------------------------------------------------------------------
(* CodecSpec: decryptAmount of utils/encryption.js over stored values.     *)
(* A stored value is described by what the function reads of it: whether   *)
(* it is a non-empty string, the number of its ':'-separated parts, the    *)
(* number parseFloat reads at its start (NaN when there is none), whether   *)
(* the decipher accepts it (key, IV and authentication tag fit), and the   *)
(* number parseFloat reads in the decrypted text.                          *)

MaxParts == 4

Numbers == { RatInt(a) : a \in Amounts } \cup { NaN }

StoredValues ==
    [isString : BOOLEAN, parts : 1 .. MaxParts, leading : Numbers,
     authentic : BOOLEAN, plaintext : Numbers]

returned(value) == [threw |-> FALSE, value |-> value]
thrown == [threw |-> TRUE, value |-> NaN]

\* The catch block: parseFloat of the stored value, else the error goes to
\* the caller.
decryptFallback(encryptedAmount) ==
    IF encryptedAmount.leading # NaN THEN returned(encryptedAmount.leading)
    ELSE thrown

decryptAmount(encryptedAmount) ==
    IF ~encryptedAmount.isString \/ encryptedAmount.parts # 3
    THEN \* parseFloat(encryptedAmount), or an Error thrown into the catch block
         IF encryptedAmount.leading # NaN THEN returned(encryptedAmount.leading)
         ELSE decryptFallback(encryptedAmount)
    ELSE IF encryptedAmount.authentic
    THEN returned(encryptedAmount.plaintext)
    ELSE decryptFallback(encryptedAmount)

decryptStored(encryptedAmount) ==
    /\ response = NoResponse
    /\ response' = [kind |-> "decryptAmount", user |-> 0, home |-> 0, month |-> 0,
                    year |-> 0, status |-> 0,
                    body |-> <<encryptedAmount, decryptAmount(encryptedAmount)>>]
    /\ UNCHANGED <<serverVars, clientVars, concurrentVars>>

CodecNext ==
    \/ \E encryptedAmount \in StoredValues : decryptStored(encryptedAmount)
    \/ responseDelivered

CodecSpec == Init /\ [][CodecNext]_vars

-----------------------------------------------------------------------------
(* The amount codec in the arithmetic of the code.  A JavaScript number is *)
(* an IEEE 754 double: m * 2^e with 2^52 <= m < 2^53, each operation       *)
(* rounded to the nearest double, ties to even.  The integers involved     *)
(* exceed the range of the model's integers, so they are kept as four      *)
(* limbs of 20 bits, least significant first.  (Elsewhere in this          *)
(* development amounts are exact rationals.)                               *)

LimbBase == 1048576

BigOf(n) == << n % LimbBase, n \div LimbBase, 0, 0 >>

\* a * k for 0 < k <= 1024
BigMulSmall(a, k) ==
    LET t1 == a[1] * k
        t2 == a[2] * k + t1 \div LimbBase
        t3 == a[3] * k + t2 \div LimbBase
        t4 == a[4] * k + t3 \div LimbBase
    IN  << t1 % LimbBase, t2 % LimbBase, t3 % LimbBase, t4 % LimbBase >>

\* a divided by d, 0 < d <= 1024: quotient and remainder
BigDivSmall(a, d) ==
    LET c4 == a[4]
        c3 == (c4 % d) * LimbBase + a[3]
        c2 == (c3 % d) * LimbBase + a[2]
        c1 == (c2 % d) * LimbBase + a[1]
    IN  [quot |-> << c1 \div d, c2 \div d, c3 \div d, c4 \div d >>, rem |-> c1 % d]

BigInc(a) ==
    LET t1 == a[1] + 1
        t2 == a[2] + t1 \div LimbBase
        t3 == a[3] + t2 \div LimbBase
        t4 == a[4] + t3 \div LimbBase
    IN  << t1 % LimbBase, t2 % LimbBase, t3 % LimbBase, t4 % LimbBase >>

TwoTo52 == << 0, 0, 4096, 0 >>
BelowTwoTo42(a) == a[4] = 0 /\ a[3] < 4
BelowTwoTo52(a) == a[4] = 0 /\ a[3] < 4096
BelowTwoTo53(a) == a[4] = 0 /\ a[3] < 8192

\* A quotient of 53 bits with its remainder, rounded to the nearest, ties
\* to even.
roundedQuotient(quot, rem, d, e) ==
    IF 2 * rem > d \/ (2 * rem = d /\ quot[1] % 2 = 1)
    THEN IF BelowTwoTo53(BigInc(quot)) THEN [m |-> BigInc(quot), e |-> e]
         ELSE [m |-> TwoTo52, e |-> e + 1]
    ELSE [m |-> quot, e |-> e]

\* The double nearest to n * 2^e / d, for n > 0 and a small d.
RECURSIVE nearestDouble(_, _, _)
nearestDouble(n, d, e) ==
    IF BelowTwoTo42(BigDivSmall(n, d).quot)
    THEN nearestDouble(BigMulSmall(n, 1024), d, e - 10)
    ELSE IF BelowTwoTo52(BigDivSmall(n, d).quot)
    THEN nearestDouble(BigMulSmall(n, 2), d, e - 1)
    ELSE IF ~BelowTwoTo53(BigDivSmall(n, d).quot)
    THEN nearestDouble(n, 2 * d, e + 1)
    ELSE roundedQuotient(BigDivSmall(n, d).quot, BigDivSmall(n, d).rem, d, e)

\* The number a decimal text with two decimals denotes (JSON.parse of the
\* request body, parseFloat of a DECIMAL(15, 2) column): cents / 100.
numberOfCents(cents) == nearestDouble(cents, 100, 0)

\* parseFloat(amount) * AMOUNT_OBFUSCATION_FACTOR
obfuscatedAmount(amount) ==
    nearestDouble(BigMulSmall(amount.m, AMOUNT_OBFUSCATION_FACTOR), 1, amount.e)

PowerOfTwo(j) == << 1, 2, 4, 8, 16, 32, 64, 128, 256, 512, 1024 >>[j + 1]

\* n / 2^k rounded down, k >= 0: whole limbs are dropped, the remaining
\* bits are divided away ten at a time.
BigShiftRight(n, k) ==
    LET limbs == k \div 20
        bits == k % 20
        low == IF bits > 10 THEN 10 ELSE bits
        dropped == [i \in 1 .. 4 |-> IF i + limbs <= 4 THEN n[i + limbs] ELSE 0]
    IN  BigDivSmall(BigDivSmall(dropped, PowerOfTwo(low)).quot,
                    PowerOfTwo(bits - low)).quot

\* The number sent as a query parameter and stored in the DECIMAL(15, 2)
\* column: rounded to two decimals, half away from zero.  The value held
\* is in cents.  (A number below 2^53 / 100 has a negative exponent.)
decimalColumn(value) ==
    LET scaled == BigMulSmall(value.m, 100)
    IN  BigDivSmall(BigInc(BigShiftRight(scaled, (0 - value.e) - 1)), 2).quot

\* parseFloat(finance.amount) / AMOUNT_OBFUSCATION_FACTOR
deobfuscatedAmount(storedCents) ==
    LET parsed == numberOfCents(storedCents)
    IN  nearestDouble(parsed.m, AMOUNT_OBFUSCATION_FACTOR, parsed.e)

\* The amounts written: every amount from one cent to MaxCents cents, and
\* 19.99 and 1000000.00.
MaxCents == 60
WrittenCents == 1 .. MaxCents \cup {1999, 100000000}

\* POST /api/homes/:id/finances as far as the amount goes: the INSERT.
storeAmount(cents) ==
    /\ response = NoResponse
    /\ response' = [kind |-> "stored", user |-> 0, home |-> 0, month |-> 0,
                    year |-> 0, status |-> 0,
                    body |-> << cents,
                                decimalColumn(obfuscatedAmount(numberOfCents(BigOf(cents)))) >>]
    /\ UNCHANGED <<serverVars, clientVars, concurrentVars>>

\* The SELECT of the created row and the amount of the response.
readAmount ==
    /\ response.kind = "stored"
    /\ response' = [response EXCEPT
                      !.kind = "read", !.status = 201,
                      !.body = << response.body[1], response.body[2],
                                  deobfuscatedAmount(response.body[2]) >>]
    /\ UNCHANGED <<serverVars, clientVars, concurrentVars>>

RoundTripNext ==
    \/ \E cents \in WrittenCents : storeAmount(cents)
    \/ readAmount
    \/ responseDelivered

RoundTripSpec == Init /\ [][RoundTripNext]_vars

-----------------------------------------------------------------------------
(* Client: the form of FinancesComponent, with which the owner creates,    *)
(* edits and deletes entries.  A write request is handled by the server    *)
(* in one step; its success callback (reload, close the form) is a step    *)
(* of its own.                                                             *)

formOf(open, type, amount, date, recurring, due, months, visible) ==
    [open |-> open, type |-> type, amount |-> amount, transaction_date |-> date,
     is_recurring |-> recurring, due_date |-> due, payment_months |-> months,
     visible_to_user_ids |-> visible]

\* financeForm.reset({ type: 'income', is_recurring: false, ... })
BlankForm == formOf(TRUE, "income", RatInt(0), NoDate, FALSE, NoDate, NoMonths, {})

\* Faulty variant of financeToEdit: the derived entry itself is edited.
financeToEditDerived(finance) == finance

\* editFinance: the original of a derived entry, if the loaded list has it.
financeToEdit(finance) ==
    IF finance.original_finance_id # 0
          /\ \E j \in 1 .. Len(finances) : finances[j].id = finance.original_finance_id
    THEN finances[CHOOSE j \in 1 .. Len(finances) :
                     /\ finances[j].id = finance.original_finance_id
                     /\ \A k \in 1 .. j - 1 : finances[k].id # finance.original_finance_id]
    ELSE finance

\* editFinance(finance), finance being the i-th entry of the displayed list.
editFinance(i) ==
    LET edited == financeToEdit(displayedFinances[i])
    IN  /\ i \in 1 .. Len(displayedFinances)
        /\ editingFinance' = edited
        /\ financeForm' = formOf(TRUE, edited.type, edited.amount, edited.transaction_date,
                                 edited.is_recurring, edited.due_date,
                                 edited.payment_months, edited.visible_to_user_ids)
        /\ UNCHANGED <<serverVars, response, authUser, homeId, currentMonth, currentYear,
                       selectedType, finances, displayedFinances, balance, concurrentVars>>

\* toggleForm: the form is opened or closed, no entry is being edited; a
\* form that is closed is reset.
toggledForm == IF financeForm.open THEN NoForm ELSE [financeForm EXCEPT !.open = TRUE]

toggleForm ==
    /\ financeForm' = toggledForm
    /\ editingFinance' = NoFinance
    /\ UNCHANGED <<serverVars, response, authUser, homeId, currentMonth, currentYear,
                   selectedType, finances, displayedFinances, balance, concurrentVars>>

\* The user types a new amount into the open form.
EnteredAmounts == {7500}

enterAmount(amount) ==
    /\ financeForm.open
    /\ financeForm' = [financeForm EXCEPT !.amount = RatInt(amount)]
    /\ UNCHANGED <<serverVars, response, authUser, homeId, currentMonth, currentYear,
                   selectedType, finances, displayedFinances, balance, editingFinance,
                   concurrentVars>>

\* The user fills the form for a new entry.
NewEntries == { formOf(TRUE, "income", RatInt(10000), Date(2024, 2, 10), FALSE, NoDate,
                       NoMonths, {}) }

enterNewEntry(entry) ==
    /\ financeForm.open
    /\ editingFinance = NoFinance
    /\ financeForm' = entry
    /\ UNCHANGED <<serverVars, response, authUser, homeId, currentMonth, currentYear,
                   selectedType, finances, displayedFinances, balance, editingFinance,
                   concurrentVars>>

\* financeForm.valid (transaction_date is required) and the amount check of
\* onSubmit.
formValid ==
    /\ financeForm.transaction_date # NoDate
    /\ financeForm.amount.den = 1
    /\ financeForm.amount.num > 0

\* financeData: a field that is undefined is not in the JSON body.
financeData ==
    [type |-> financeForm.type,
     amount |-> financeForm.amount.num,
     transaction_date |-> financeForm.transaction_date,
     is_recurring |-> financeForm.is_recurring,
     due_date |-> financeForm.due_date,
     payment_months |-> financeForm.payment_months,
     visible_to_user_ids |-> financeForm.visible_to_user_ids,
     provided |-> {"type", "amount", "transaction_date", "is_recurring",
                   "visible_to_user_ids"}
                    \cup (IF financeForm.due_date # NoDate THEN {"due_date"} ELSE {})
                    \cup (IF financeForm.payment_months # NoMonths
                          THEN {"payment_months"} ELSE {})]

\* onSubmit: the update of the entry being edited, else the creation of a
\* new entry, is sent to the server.
onSubmit ==
    /\ financeForm.open
    /\ formValid
    /\ IF editingFinance # NoFinance
       THEN updateFinance(authUser, homeId, editingFinance.id, financeData)
       ELSE createFinance(authUser, homeId, financeData)

\* deleteFinance(finance) of the component, confirmed by the user, finance
\* being the i-th entry of the displayed list.
idToDelete(finance) ==
    IF finance.original_finance_id # 0 THEN finance.original_finance_id ELSE finance.id

componentDeleteFinance(i) ==
    /\ i \in 1 .. Len(displayedFinances)
    /\ deleteFinance(authUser, homeId, idToDelete(displayedFinances[i]))

\* The next callback of a write request: loadFinances, loadBalance and,
\* after a create or an update, toggleForm.
writeSucceeded ==
    /\ response.kind \in {"create", "update", "delete"}
    /\ response.status \in {200, 201}
    /\ response' = NoResponse
    /\ finances' = loadedFinances(currentMonth, currentYear, selectedType)
    /\ displayedFinances' = loadedDisplay(currentMonth, currentYear, selectedType)
    /\ balance' = loadedBalance(currentMonth, currentYear)
    /\ IF response.kind = "delete"
       THEN UNCHANGED <<editingFinance, financeForm>>
       ELSE editingFinance' = NoFinance /\ financeForm' = toggledForm
    /\ UNCHANGED <<serverVars, authUser, homeId, currentMonth, currentYear, selectedType,
                   concurrentVars>>

\* The error callback of a write request: the message is shown, the form
\* stays as it is.
writeFailed ==
    /\ response.kind \in {"create", "update", "delete"}
    /\ response.status \notin {200, 201}
    /\ responseDelivered

\* The ledger the owner of home 1 starts with: one expense of 50.00, plain,
\* recurring, a plan of three months, or both.
EditRecords ==
    { r \in LedgerRecords :
        /\ r.type = "expense" /\ r.amount = obfuscate(5000)
        /\ r.transaction_date = Date(2023, 12, 31)
        /\ r.due_date = NoDate
        /\ r.payment_months \in {NoMonths, MaxPaymentMonths} }

\* The months the owner looks at while editing: December 2023 to
\* February 2024.
EditMonths == 3
EditTargetIndexes == componentMonthIndex(2023, 12) .. componentMonthIndex(2023, 12) + EditMonths - 1

EditInit ==
    /\ \E r \in EditRecords : homeFinances = (1 :> r)
    /\ financeVisibility = {}
    /\ nextFinanceId = 2
    /\ homeMembers = InitialHomeMembers
    /\ families = InitialFamilies
    /\ response = NoResponse
    /\ authUser = homes[1]
    /\ homeId = 1
    /\ currentMonth = 12 /\ currentYear = 2023
    /\ selectedType = "all"
    /\ finances = <<>>
    /\ displayedFinances = <<>>
    /\ balance = NoSummary
    /\ editingFinance = NoFinance
    /\ financeForm = NoForm
    /\ shoppingLists = {}
    /\ inFlight = {}

EditNext ==
    \/ ngOnInit
    \/ \E direction \in {"prev", "next"} :
          /\ changeMonth(direction)
          /\ componentMonthIndex(currentYear', currentMonth') \in EditTargetIndexes
    \/ \E i \in 1 .. MaxFinances : editFinance(i)
    \/ toggleForm
    \/ \E amount \in EnteredAmounts : enterAmount(amount)
    \/ \E entry \in NewEntries : enterNewEntry(entry)
    \/ onSubmit
    \/ \E i \in 1 .. MaxFinances : componentDeleteFinance(i)
    \/ writeSucceeded
    \/ writeFailed

EditSpec == EditInit /\ [][EditNext]_vars

-----------------------------------------------------------------------------
(* MonthsSpec: the write routes under the values a request may carry as    *)
(* payment_months.  A submitted value is told by what parseInt makes of    *)
(* it: whether it starts with an integer (numeric), which one (whole), and *)
(* whether it is that integer and nothing more (exact).                    *)

submitted(numeric, whole, exact) == [numeric |-> numeric, whole |-> whole, exact |-> exact]

\* 3, 2.5, "2 months", 0.5, 0, -1 and "abc".
SubmittedMonths ==
    { submitted(TRUE, MaxPaymentMonths, TRUE), submitted(TRUE, 2, FALSE),
      submitted(TRUE, 0, FALSE), submitted(TRUE, 0, TRUE), submitted(TRUE, 0 - 1, TRUE),
      submitted(FALSE, 0, FALSE) }

\* parseInt(payment_months): the leading integer, or NaN.
parseInt(value) == [nan |-> ~value.numeric, n |-> value.whole]

\* if (isNaN(months) || months < 1) return res.status(400)
monthsRefused(value) == parseInt(value).nan \/ parseInt(value).n < 1

\* The payment_months the routes go on with: parseInt(payment_months) is what
\* the INSERT and the UPDATE store; a refused value stands as -1, which the
\* check of the routes refuses.
monthsRead(value) == IF monthsRefused(value) THEN 0 - 1 ELSE parseInt(value).n

createSubmitted(u, h, value) ==
    createFinance(u, h, [requestBody("expense", 5000, Date(2024, 3, 1), FALSE, NoDate,
                                     monthsRead(value))
                            EXCEPT !.provided = {"payment_months"}])

updateSubmitted(u, h, financeId, value) ==
    updateFinance(u, h, financeId,
                  [requestBody("expense", 5000, Date(2024, 3, 1), FALSE, NoDate,
                               monthsRead(value))
                      EXCEPT !.provided = {"payment_months"}])

MonthsNext ==
    \/ \E u \in Users, h \in Homes, value \in SubmittedMonths : createSubmitted(u, h, value)
    \/ \E u \in Users, h \in Homes, id \in FinanceIds, value \in SubmittedMonths :
          updateSubmitted(u, h, id, value)
    \/ \E u \in Users, h \in Homes, body \in WriteCreateBodies : createFinance(u, h, body)
    \/ responseDelivered

MonthsSpec == Init /\ [][MonthsNext]_vars

-----------------------------------------------------------------------------
(* ConcurrentSpec: the update route as the server runs it, one query at a  *)
(* time.  Each await of the handler lets the requests of other callers     *)
(* run; the handler's queries are not in a transaction.  The handler under *)
(* way is kept in inFlight with the place it has reached.                  *)

updateHandler(u, h, financeId, body, pc, remaining) ==
    [kind |-> "update", user |-> u, home |-> h, finance |-> financeId, body |-> body,
     pc |-> pc, remaining |-> remaining]

\* From the access checks to the UPDATE of the row.  A request that fails
\* the checks made before the UPDATE is answered at once.
beginUpdate(u, h, financeId, body) ==
    /\ inFlight = {}
    /\ IF rowIsUpdated(u, h, financeId, body)
       THEN /\ homeFinances' = [homeFinances EXCEPT ![financeId] = updatedRow(@, body)]
            /\ inFlight' = { updateHandler(u, h, financeId, body, "visibility", {}) }
            /\ UNCHANGED response
       ELSE /\ response = NoResponse
            /\ response' = writeResponse("update", u, h, updateStatus(u, h, financeId, body))
            /\ UNCHANGED <<homeFinances, inFlight>>
    /\ UNCHANGED <<financeVisibility, nextFinanceId, homeMembers, families, clientVars,
                   shoppingLists>>

\* if (visible_to_user_ids !== undefined): the ids are verified and the
\* existing visibility rows of the finance are deleted.
deleteVisibility(handler) ==
    /\ handler \in inFlight
    /\ handler.kind = "update" /\ handler.pc = "visibility"
    /\ IF "visible_to_user_ids" \notin handler.body.provided
       THEN /\ inFlight' = { [handler EXCEPT !.pc = "select"] }
            /\ UNCHANGED <<financeVisibility, response>>
       ELSE IF handler.body.visible_to_user_ids # {}
               /\ validUserIds(handler.home, handler.body.visible_to_user_ids)
                     # handler.body.visible_to_user_ids
       THEN /\ response = NoResponse
            /\ response' = writeResponse("update", handler.user, handler.home, 400)
            /\ inFlight' = {}
            /\ UNCHANGED financeVisibility
       ELSE /\ financeVisibility' = { x \in financeVisibility : x[1] # handler.finance }
            /\ inFlight' = { [handler EXCEPT !.pc = "insert",
                                             !.remaining = handler.body.visible_to_user_ids] }
            /\ UNCHANGED response
    /\ UNCHANGED <<homeFinances, nextFinanceId, homeMembers, families, clientVars,
                   shoppingLists>>

\* One turn of the loop over visible_to_user_ids: one INSERT.
insertVisibility(handler) ==
    /\ handler \in inFlight
    /\ handler.kind = "update" /\ handler.pc = "insert"
    /\ handler.remaining # {}
    /\ LET userId == CHOOSE v \in handler.remaining : \A w \in handler.remaining : v <= w
       IN  /\ financeVisibility' = financeVisibility \cup { <<handler.finance, userId>> }
           /\ inFlight' = { [handler EXCEPT !.remaining = handler.remaining \ {userId}] }
    /\ UNCHANGED <<homeFinances, nextFinanceId, homeMembers, families, response, clientVars,
                   shoppingLists>>

\* The SELECT of the updated row and res.json(finance).
respondUpdate(handler) ==
    /\ handler \in inFlight
    /\ handler.kind = "update"
    /\ handler.pc = "select" \/ (handler.pc = "insert" /\ handler.remaining = {})
    /\ response = NoResponse
    /\ response' = writeResponse("update", handler.user, handler.home, 200)
    /\ inFlight' = {}
    /\ UNCHANGED <<serverVars, clientVars, shoppingLists>>

\* The ledger of home 1: one expense of 50.00 of March 2024 that the owner
\* has made visible to the member 2.
ConcurrentInit ==
    /\ homeFinances = (1 :> [home_id |-> 1, type |-> "expense", amount |-> obfuscate(5000),
                             transaction_date |-> Date(2024, 3, 1), is_recurring |-> FALSE,
                             created_by |-> homes[1], due_date |-> NoDate,
                             payment_months |-> NoMonths])
    /\ financeVisibility = { <<1, 2>> }
    /\ nextFinanceId = 2
    /\ homeMembers = InitialHomeMembers
    /\ families = InitialFamilies
    /\ response = NoResponse
    /\ authUser = homes[1]
    /\ homeId = 1
    /\ currentMonth = 3
    /\ currentYear = 2024
    /\ selectedType = "all"
    /\ finances = <<>>
    /\ displayedFinances = <<>>
    /\ balance = NoSummary
    /\ editingFinance = NoFinance
    /\ financeForm = NoForm
    /\ shoppingLists = {}
    /\ inFlight = {}

\* The updates: a new amount of 75.00 with the record visible to the owner
\* and the member 2, the same with the pending member 3, which is refused,
\* and a new date without visible_to_user_ids.
NewAmount == 7500
NewVisibility == {1, 2}

ConcurrentBodies ==
    LET b == requestBody("expense", NewAmount, Date(2024, 3, 20), FALSE, NoDate, NoMonths)
    IN  { [b EXCEPT !.provided = {"amount", "visible_to_user_ids"},
                    !.visible_to_user_ids = NewVisibility],
          [b EXCEPT !.provided = {"amount", "visible_to_user_ids"},
                    !.visible_to_user_ids = {2, 3}],
          [b EXCEPT !.provided = {"transaction_date"}] }

ConcurrentNext ==
    \/ \E u \in Users, h \in Homes, id \in FinanceIds, body \in ConcurrentBodies :
          beginUpdate(u, h, id, body)
    \/ \E handler \in inFlight : deleteVisibility(handler)
    \/ \E handler \in inFlight : insertVisibility(handler)
    \/ \E handler \in inFlight : respondUpdate(handler)
    \/ \E u \in Users, h \in Homes : listFinances(u, h, "all", 3, 2024)
    \/ \E u \in Users, h \in Homes : readBalance(u, h, 3, 2024)
    \/ responseDelivered

ConcurrentSpec == ConcurrentInit /\ [][ConcurrentNext]_vars

-----------------------------------------------------------------------------
(* TwoRecordSpec: the client over a ledger of two records of home 1, the   *)
(* second of which was stored when the AUTO_INCREMENT counter of           *)
(* home_finances stood at 2 or at 1001.                                    *)

SecondIds == {2, 1001}

\* An income of 100.00 of 15 January 2024: plain, recurring, or a plan of
\* MaxPaymentMonths months.
TwoRecordRows ==
    { r \in LedgerRecords :
        /\ r.type = "income" /\ r.amount = obfuscate(10000)
        /\ r.transaction_date = Date(2024, 1, 15)
        /\ r.due_date = NoDate
        /\ r.payment_months \in {NoMonths, MaxPaymentMonths}
        /\ ~(r.is_recurring /\ r.payment_months # NoMonths) }

TwoRecordInit ==
    /\ \E first \in TwoRecordRows, second \in TwoRecordRows, id \in SecondIds :
          /\ homeFinances = (1 :> first) @@ (id :> second)
          /\ nextFinanceId = id + 1
    /\ financeVisibility = {}
    /\ homeMembers = InitialHomeMembers
    /\ families = InitialFamilies
    /\ response = NoResponse
    /\ authUser = homes[1]
    /\ homeId = 1
    /\ \E t \in TargetIndexes : currentMonth = MonthOf(t) /\ currentYear = YearOf(t)
    /\ selectedType = "all"
    /\ finances = <<>>
    /\ displayedFinances = <<>>
    /\ balance = NoSummary
    /\ editingFinance = NoFinance
    /\ financeForm = NoForm
    /\ shoppingLists = {}
    /\ inFlight = {}

TwoRecordSpec == TwoRecordInit /\ [][ClientNext]_vars

-----------------------------------------------------------------------------
(* AsyncSpec: the client with its HTTP responses in flight.  changeMonth   *)
(* and ngOnInit send the list and the balance request and return; each     *)
(* response reaches its subscribe callback in a later step, in any order.  *)
(* The ledger does not change, so a response is what the server computed   *)
(* for the month and year of its request.                                  *)

\* The response to getFinances of loadFinances, in flight.
financesInFlight(month, year) ==
    LET r == getFinances(homeId, authUser, selectedType, month, year)
    IN  [kind |-> "list", month |-> month, year |-> year, status |-> r.status,
         finances |-> r.body, balance |-> NoSummary]

\* The response to getFinanceBalance of loadBalance, in flight.
balanceInFlight(month, year) ==
    LET r == getBalance(homeId, authUser, month, year)
    IN  [kind |-> "balance", month |-> month, year |-> year, status |-> r.status,
         finances |-> <<>>, balance |-> r.body]

\* ngOnInit: loadFinances() and loadBalance() for the month shown.
ngOnInitSend ==
    /\ homeId # 0
    /\ inFlight' = inFlight \cup { financesInFlight(currentMonth, currentYear),
                                   balanceInFlight(currentMonth, currentYear) }
    /\ UNCHANGED <<serverVars, response, clientVars, shoppingLists>>

\* changeMonth: sets the month and the year, then loadFinances() and
\* loadBalance().
changeMonthSend(direction) ==
    LET month == IF direction = "prev"
                 THEN (IF currentMonth - 1 < 1 THEN 12 ELSE currentMonth - 1)
                 ELSE (IF currentMonth + 1 > 12 THEN 1 ELSE currentMonth + 1)
        year  == IF direction = "prev"
                 THEN (IF currentMonth - 1 < 1 THEN currentYear - 1 ELSE currentYear)
                 ELSE (IF currentMonth + 1 > 12 THEN currentYear + 1 ELSE currentYear)
    IN  /\ componentMonthIndex(year, month) \in EditTargetIndexes
        /\ currentMonth' = month
        /\ currentYear' = year
        /\ inFlight' = inFlight \cup { financesInFlight(month, year),
                                       balanceInFlight(month, year) }
        /\ UNCHANGED <<serverVars, response, authUser, homeId, selectedType, finances,
                       displayedFinances, balance, editingFinance, financeForm,
                       shoppingLists>>

\* The subscribe callback of loadFinances: the next branch sets finances
\* and projects them for the month and year the component shows now; the
\* error branch logs.
loadFinancesNext(r) ==
    /\ r \in inFlight
    /\ r.kind = "list"
    /\ inFlight' = inFlight \ {r}
    /\ IF r.status = 200
       THEN /\ finances' = r.finances
            /\ displayedFinances' =
                  processFinancesForDisplay(r.finances, currentYear, currentMonth)
       ELSE UNCHANGED <<finances, displayedFinances>>
    /\ UNCHANGED <<serverVars, response, authUser, homeId, currentMonth, currentYear,
                   selectedType, balance, editingFinance, financeForm, shoppingLists>>

\* The subscribe callback of loadBalance: the next branch sets balance.
loadBalanceNext(r) ==
    /\ r \in inFlight
    /\ r.kind = "balance"
    /\ inFlight' = inFlight \ {r}
    /\ IF r.status = 200 THEN balance' = r.balance ELSE UNCHANGED balance
    /\ UNCHANGED <<serverVars, response, authUser, homeId, currentMonth, currentYear,
                   selectedType, finances, displayedFinances, editingFinance,
                   financeForm, shoppingLists>>

\* The ledger: one income of 100.00 of 15 January 2024, plain, recurring or
\* a plan; the component opens on one of December 2023 to February 2024.
AsyncInit ==
    /\ \E r \in TwoRecordRows : homeFinances = (1 :> r)
    /\ nextFinanceId = 2
    /\ financeVisibility = {}
    /\ homeMembers = InitialHomeMembers
    /\ families = InitialFamilies
    /\ response = NoResponse
    /\ authUser = homes[1]
    /\ homeId = 1
    /\ \E t \in EditTargetIndexes : currentMonth = MonthOf(t) /\ currentYear = YearOf(t)
    /\ selectedType = "all"
    /\ finances = <<>>
    /\ displayedFinances = <<>>
    /\ balance = NoSummary
    /\ editingFinance = NoFinance
    /\ financeForm = NoForm
    /\ shoppingLists = {}
    /\ inFlight = {}

AsyncNext ==
    \/ ngOnInitSend
    \/ \E direction \in {"prev", "next"} : changeMonthSend(direction)
    \/ \E r \in inFlight : loadFinancesNext(r)
    \/ \E r \in inFlight : loadBalanceNext(r)

AsyncSpec == AsyncInit /\ [][AsyncNext]_vars

-----------------------------------------------------------------------------
(* ListSpec: the shopping-list routes of the server.  The create handler   *)
(* awaits its SELECT and its INSERT separately, so the handlers of other   *)
(* requests run between the two; the complete handler is one UPDATE.       *)
(* shoppingLists holds the rows of the table, inFlight the create handlers *)
(* that have not responded yet.                                            *)

\* At most MaxLists rows are ever inserted, and one request per user is in
\* flight at a time.
MaxLists == 3

activeLists(h) == { l \in shoppingLists : l.home_id = h /\ l.status = "active" }

\* POST /api/homes/:id/shopping-lists up to the access check: 400 without
\* a name and 403 without access end the handler.
beginCreateList(u, h, nameGiven) ==
    /\ \A handler \in inFlight : handler.user # u
    /\ Cardinality(shoppingLists) + Cardinality(inFlight) < MaxLists
    /\ inFlight' = IF nameGiven /\ checkHomeAccess(h, u)
                   THEN inFlight \cup { [user |-> u, home |-> h, pc |-> "select"] }
                   ELSE inFlight
    /\ UNCHANGED <<serverVars, response, clientVars, shoppingLists>>

\* The SELECT of the active lists of the home: 400 if there is one.
selectActiveLists(handler) ==
    /\ handler \in inFlight
    /\ handler.pc = "select"
    /\ inFlight' = IF activeLists(handler.home) # {}
                   THEN inFlight \ {handler}
                   ELSE (inFlight \ {handler}) \cup { [handler EXCEPT !.pc = "insert"] }
    /\ UNCHANGED <<serverVars, response, clientVars, shoppingLists>>

\* The INSERT (status defaults to active) and the 201 response.
insertList(handler) ==
    /\ handler \in inFlight
    /\ handler.pc = "insert"
    /\ shoppingLists' = shoppingLists \cup
          { [id |-> Cardinality(shoppingLists) + 1, home_id |-> handler.home,
             status |-> "active", created_by |-> handler.user] }
    /\ inFlight' = inFlight \ {handler}
    /\ UNCHANGED <<serverVars, response, clientVars>>

\* PUT /api/homes/:id/shopping-lists/:listId/complete: one UPDATE after the
\* access check; 403 and 404 change nothing.
completeList(u, h, listId) ==
    /\ shoppingLists' =
          IF checkHomeAccess(h, u)
          THEN { IF l.id = listId /\ l.home_id = h
                 THEN [l EXCEPT !.status = "completed"] ELSE l : l \in shoppingLists }
          ELSE shoppingLists
    /\ UNCHANGED <<serverVars, response, clientVars, inFlight>>

ListNext ==
    \/ \E u \in Users, h \in Homes, nameGiven \in BOOLEAN : beginCreateList(u, h, nameGiven)
    \/ \E handler \in inFlight : selectActiveLists(handler)
    \/ \E handler \in inFlight : insertList(handler)
    \/ \E u \in Users, h \in Homes, listId \in 1 .. MaxLists : completeList(u, h, listId)

ListSpec == Init /\ [][ListNext]_vars

-----------------------------------------------------------------------------
(* Properties.  Under ClientSpec the ledger holds the one record           *)
(* LedgerRow; the client shows the month Target once its lists are loaded. *)

monthIndex(d) == d.year * 12 + (d.month - 1)

LedgerRow == homeFinances[1]
Target == Date(currentYear, currentMonth, 1)
MonthsDiff == monthIndex(Target) - monthIndex(LedgerRow.transaction_date)

\* The amount the record was created with.
DomainAmount(row) == Rat(row.amount, AMOUNT_OBFUSCATION_FACTOR)

ExplicitPlan(row) == row.payment_months # NoMonths /\ row.payment_months > 1

\* The balance and the displayed list are those of the month shown.
InSync == balance.month = currentMonth /\ balance.year = currentYear

\* The list filter of the client lets the record's type through.
TypeShown == selectedType \in {"all", LedgerRow.type}

\* The total of the record's own type and the total of the other type.
OwnTotal ==
    IF LedgerRow.type = "income" THEN balance.total_income ELSE balance.total_expenses
OtherTotal ==
    IF LedgerRow.type = "income" THEN balance.total_expenses ELSE balance.total_income

RatLeq(a, b) == a.num * b.den <= b.num * a.den

\* a and b differ by at most k half cents (the rounding of k displayed amounts).
Near(a, b, k) == 2 * Abs(a.num * b.den - b.num * a.den) <= k * a.den * b.den

RECURSIVE DisplayedSum(_, _)
DisplayedSum(list, type) ==
    IF list = <<>> THEN RatInt(0)
    ELSE RatAdd(IF Head(list).type = type THEN Head(list).amount ELSE RatInt(0),
                DisplayedSum(Tail(list), type))

\* C1: a record with explicit paymentMonths = n > 1 is Active iff
\* 0 <= monthsDiff < n; when Active its amount is amount / n (the displayed
\* amount to the cent) and its planIndex is monthsDiff + 1; on the server's
\* balance and in the client's displayed list alike.
C1_PlanWindow ==
    (InSync /\ ExplicitPlan(LedgerRow)) =>
        LET n == LedgerRow.payment_months
            active == MonthsDiff >= 0 /\ MonthsDiff < n
            share == RatDivInt(DomainAmount(LedgerRow), n)
        IN  /\ OwnTotal = (IF active THEN share ELSE RatInt(0))
            /\ TypeShown =>
                  IF active
                  THEN /\ Len(displayedFinances) = 1
                       /\ displayedFinances[1].payment_month_index = MonthsDiff + 1
                       /\ displayedFinances[1].payment_month_index \in 1 .. n
                       /\ Near(displayedFinances[1].amount, share, 1)
                  ELSE displayedFinances = <<>>

\* C2: a record with isRecurring and paymentMonths = n > 1 is Inactive in
\* every month outside its plan: nothing in the balance, no entry in the
\* displayed list.
C2_PlanWinsOverRecurring ==
    (InSync /\ LedgerRow.is_recurring /\ ExplicitPlan(LedgerRow)
        /\ (MonthsDiff < 0 \/ MonthsDiff >= LedgerRow.payment_months)) =>
        /\ OwnTotal = RatInt(0)
        /\ TypeShown => displayedFinances = <<>>

\* C3: the amounts the client displays for income sum to total_income of
\* the balance of the same month, and those for expense to total_expenses
\* (to the cent of each displayed amount).
C3_ListMatchesBalance ==
    (InSync /\ selectedType = "all") =>
        /\ Near(DisplayedSum(displayedFinances, "income"), balance.total_income,
                Len(displayedFinances))
        /\ Near(DisplayedSum(displayedFinances, "expense"), balance.total_expenses,
                Len(displayedFinances))

\* C4: in each month a record is counted at most once: the balance holds
\* nothing, its amount or its plan share for it, and the displayed list at
\* most one entry.
C4_CountedOnce ==
    /\ Len(displayedFinances) <= 1
    /\ InSync =>
          /\ OtherTotal = RatInt(0)
          /\ RatLeq(OwnTotal, DomainAmount(LedgerRow))
          /\ OwnTotal \in { RatInt(0), DomainAmount(LedgerRow),
                            RatDivInt(DomainAmount(LedgerRow),
                                      Max(LedgerRow.payment_months, 1)) }

C4_Witness ==
    /\ InSync /\ TypeShown
    /\ LedgerRow.is_recurring /\ LedgerRow.payment_months = 3
    /\ MonthsDiff = 1
    /\ OwnTotal = RatDivInt(DomainAmount(LedgerRow), 3)
    /\ Len(displayedFinances) = 1

C6_DueRange ==
    (InSync /\ ~LedgerRow.is_recurring /\ LedgerRow.due_date # NoDate
        /\ LedgerRow.payment_months = NoMonths) =>
        LET inRange == /\ monthIndex(LedgerRow.transaction_date) <= monthIndex(Target)
                       /\ monthIndex(Target) <= monthIndex(LedgerRow.due_date)
        IN  /\ OwnTotal = (IF inRange THEN DomainAmount(LedgerRow) ELSE RatInt(0))
            /\ TypeShown =>
                  IF inRange
                  THEN /\ Len(displayedFinances) = 1
                       /\ displayedFinances[1].amount = DomainAmount(LedgerRow)
                  ELSE displayedFinances = <<>>

\* C6 amended: the same for a dueDate whose month is not before the
\* transaction month.
C6_DueRangeFromTransaction ==
    (monthIndex(LedgerRow.due_date) >= monthIndex(LedgerRow.transaction_date))
        => C6_DueRange

C6_Witness ==
    /\ InSync /\ TypeShown
    /\ ~LedgerRow.is_recurring /\ LedgerRow.payment_months = NoMonths
    /\ LedgerRow.transaction_date = Date(2024, 1, 15)
    /\ LedgerRow.due_date = Date(2024, 3, 10)
    /\ Target = Date(2024, 2, 1)
    /\ OwnTotal = DomainAmount(LedgerRow)
    /\ Len(displayedFinances) = 1
    /\ displayedFinances[1].amount = DomainAmount(LedgerRow)

\* The record has no multi-month plan: no paymentMonths above 1 and no due
\* date in a later month than the transaction.
NoPlan(row) ==
    /\ ~ExplicitPlan(row)
    /\ (row.due_date = NoDate
           \/ monthIndex(row.due_date) <= monthIndex(row.transaction_date))

\* C8: a record with no multi-month plan and isRecurring = false is Active
\* iff the target month is its transaction month, then with its full
\* amount; in every other month it contributes 0 and is not displayed.
C8_PlainSingleMonth ==
    (InSync /\ ~LedgerRow.is_recurring /\ NoPlan(LedgerRow)) =>
        /\ OwnTotal = (IF MonthsDiff = 0 THEN DomainAmount(LedgerRow) ELSE RatInt(0))
        /\ TypeShown =>
              IF MonthsDiff = 0
              THEN /\ Len(displayedFinances) = 1
                   /\ displayedFinances[1].amount = DomainAmount(LedgerRow)
              ELSE displayedFinances = <<>>

C8_Witness ==
    /\ InSync /\ TypeShown
    /\ ~LedgerRow.is_recurring /\ NoPlan(LedgerRow)
    /\ MonthsDiff = 0
    /\ OwnTotal = DomainAmount(LedgerRow)
    /\ Len(displayedFinances) = 1

\* The requester u sees the stored record id of home h.
VisibleTo(u, h, id) ==
    /\ homeFinances[id].home_id = h
    /\ (homeFinances[id].created_by = u \/ <<id, u>> \in financeVisibility)

\* The monthly contribution of a stored record without due date to the
\* month of index T: its plan share inside the plan, its amount when
\* recurring or in its transaction month, else nothing.
Contribution(row, T) ==
    LET diff == T - monthIndex(row.transaction_date)
    IN  IF ExplicitPlan(row)
        THEN IF diff >= 0 /\ diff < row.payment_months
             THEN RatDivInt(DomainAmount(row), row.payment_months) ELSE RatInt(0)
        ELSE IF row.is_recurring \/ diff = 0 THEN DomainAmount(row)
        ELSE RatInt(0)

RECURSIVE ContributionSum(_, _)
ContributionSum(ids, T) ==
    IF ids = {} THEN RatInt(0)
    ELSE LET id == CHOOSE x \in ids : TRUE
         IN  RatAdd(Contribution(homeFinances[id], T), ContributionSum(ids \ {id}, T))

VisibleOfType(u, h, type) ==
    { id \in DOMAIN homeFinances : VisibleTo(u, h, id) /\ homeFinances[id].type = type }

\* C7: a balance response holds, for its month, total_income = the sum of
\* the monthly contributions of the income records visible to the
\* requester, total_expenses = the same over the visible expense records,
\* and balance = total_income - total_expenses.
C7_BalanceTotals ==
    (response.kind = "balance" /\ response.status = 200) =>
        LET T == response.body.year * 12 + (response.body.month - 1)
            income == ContributionSum(VisibleOfType(response.user, response.home, "income"), T)
            expenses == ContributionSum(VisibleOfType(response.user, response.home, "expense"), T)
        IN  /\ response.body.total_income = income
            /\ response.body.total_expenses = expenses
            /\ response.body.balance = RatSub(income, expenses)

\* The scenario: a one-time income of 1200 in March 2024 and an expense of
\* 50 recurring from March 2024, balance of May 2024.
C7_Witness ==
    /\ response.kind = "balance" /\ response.status = 200
    /\ response.user = homes[1] /\ response.home = 1
    /\ response.body.month = 5 /\ response.body.year = 2024
    /\ DOMAIN homeFinances = {1, 2}
    /\ \E i, e \in {1, 2} :
          /\ homeFinances[i].type = "income" /\ homeFinances[i].amount = obfuscate(120000)
          /\ ~homeFinances[i].is_recurring /\ homeFinances[i].payment_months = NoMonths
          /\ homeFinances[i].transaction_date = Date(2024, 3, 15)
          /\ homeFinances[e].type = "expense" /\ homeFinances[e].amount = obfuscate(5000)
          /\ homeFinances[e].is_recurring /\ homeFinances[e].payment_months = NoMonths
          /\ homeFinances[e].transaction_date = Date(2024, 3, 1)
          /\ homeFinances[i].home_id = 1 /\ homeFinances[e].home_id = 1
    /\ response.body.total_income = RatInt(0)
    /\ response.body.total_expenses = RatInt(5000)
    /\ response.body.balance = RatInt(0 - 5000)

\* Every entry of a list response is a record of the requested home that
\* the requester created or is named visible for.
ListOnlyVisible ==
    (response.kind = "list" /\ response.status = 200) =>
        \A i \in 1 .. Len(response.body) :
            /\ response.body[i].id \in DOMAIN homeFinances
            /\ VisibleTo(response.user, response.home, response.body[i].id)

\* The totals of a balance response are the contributions of the records
\* of the requested home that the requester created or is named visible
\* for, and of no other record.
BalanceOnlyVisible ==
    (response.kind = "balance" /\ response.status = 200) =>
        LET T == response.body.year * 12 + (response.body.month - 1)
        IN  /\ response.body.total_income =
                  sumContributions(VisibleOfType(response.user, response.home, "income"), T)
            /\ response.body.total_expenses =
                  sumContributions(VisibleOfType(response.user, response.home, "expense"), T)

\* C9: the list endpoint returns, and the balance endpoint sums, only
\* records of the home that the requester created or is named visible for;
\* a record that is neither is in no list and in no total of the requester.
C9_VisibilityFilter == ListOnlyVisible /\ BalanceOnlyVisible

\* A member of home 1 who is named on one record and not on the other gets a
\* list of the one record.
C9_Witness ==
    /\ response.kind = "list" /\ response.status = 200
    /\ response.user = 2 /\ response.home = 1
    /\ Len(response.body) = 1
    /\ \E id \in DOMAIN homeFinances :
          /\ homeFinances[id].home_id = 1 /\ ~VisibleTo(2, 1, id)
          /\ homeFinances[id].is_recurring

\* Every stored record was created by the owner of its home.
CreatedByOwner ==
    \A id \in DOMAIN homeFinances :
        homeFinances[id].created_by = homes[homeFinances[id].home_id]

\* A create, update or delete request of a user who does not own the home
\* is answered with an error and changes no record and no visibility row.
NonOwnerWriteRejected ==
    (response = NoResponse /\ response'.kind \in {"create", "update", "delete"}
        /\ response'.user # homes[response'.home]) =>
        /\ response'.status >= 400
        /\ UNCHANGED <<homeFinances, financeVisibility, nextFinanceId>>

\* C10: only the owner of a home creates, updates or deletes its finance
\* records; a request of anyone else is rejected and changes nothing, and
\* every stored record's createdBy is the owner of its home.
C10_OwnerOnlyWrites == []CreatedByOwner /\ [][NonOwnerWriteRejected]_vars

\* An accepted member's update of a record of the home is answered 403.
C10_Witness ==
    /\ response.kind = "update" /\ response.status = 403
    /\ response.user = 2 /\ response.home = 1
    /\ \E id \in DOMAIN homeFinances : VisibleTo(2, 1, id)

\* The ids of body.visible_to_user_ids that are neither an accepted member
\* nor the owner of home h.
InvalidVisibleIds(h, ids) ==
    { v \in ids : v \notin AcceptedMembers(h) /\ v # homes[h] }

\* A create request with an invalid visible_to_user_ids changes nothing.
InvalidCreateChangesNothing ==
    (response = NoResponse /\ response'.kind = "create") =>
        \A body \in WriteCreateBodies :
            (createFinance(response'.user, response'.home, body)
                /\ InvalidVisibleIds(response'.home, body.visible_to_user_ids) # {}) =>
                /\ response'.status >= 400
                /\ UNCHANGED <<homeFinances, financeVisibility>>

\* An update request with an invalid visible_to_user_ids changes nothing.
InvalidUpdateChangesNothing ==
    (response = NoResponse /\ response'.kind = "update") =>
        \A id \in FinanceIds, body \in WriteUpdateBodies :
            (updateFinance(response'.user, response'.home, id, body)
                /\ "visible_to_user_ids" \in body.provided
                /\ InvalidVisibleIds(response'.home, body.visible_to_user_ids) # {}) =>
                /\ response'.status >= 400
                /\ UNCHANGED <<homeFinances, financeVisibility>>

\* C11: a create or an update whose visible_to_user_ids names a user that is
\* not an accepted member or the owner of the home is rejected and changes
\* no record and no visibility row.
C11_RejectedAsAWhole ==
    [][InvalidCreateChangesNothing /\ InvalidUpdateChangesNothing]_vars

\* A successful update with visible_to_user_ids = S leaves exactly S as the
\* visibility set of the record; one without leaves the rows as they were.
UpdateReplacesVisibility ==
    (response = NoResponse /\ response'.kind = "update" /\ response'.status = 200) =>
        \A id \in FinanceIds, body \in WriteUpdateBodies :
            updateFinance(response'.user, response'.home, id, body) =>
                /\ { x \in financeVisibility' : x[1] # id }
                      = { x \in financeVisibility : x[1] # id }
                /\ IF "visible_to_user_ids" \in body.provided
                   THEN { x[2] : x \in { y \in financeVisibility' : y[1] = id } }
                           = body.visible_to_user_ids
                   ELSE UNCHANGED financeVisibility

\* C13: after a successful update carrying visible_to_user_ids = S the
\* visibility set of the record is exactly S (no earlier row survives unless
\* it is in S), and a successful update that omits visible_to_user_ids
\* leaves the visibility set unchanged.
C13_VisibilityReplaced == [][UpdateReplacesVisibility]_vars

\* A record visible to user 2 has just been updated to be visible to nobody.
C13_Witness ==
    /\ response.kind = "update" /\ response.status = 200
    /\ financeVisibility = {}
    /\ \E id \in DOMAIN homeFinances : homeFinances[id].payment_months = 3

\* C14: a create or update with an amount <= 0 is refused and stores
\* nothing: every stored record's amount is > 0.
C14_StoredAmountsPositive ==
    \A id \in DOMAIN homeFinances :
        RatLeq(RatInt(1), RatInt(homeFinances[id].amount))

\* The records whose amount column holds a number.
Decodable == { id \in DOMAIN homeFinances : homeFinances[id].amount # UndecodableAmount }

\* C15: a stored amount that cannot be decoded is not fatal for a balance or
\* list request: the record counts as 0 and is listed with amount 0, and
\* the totals are the sums over the other records.
C15_UndecodableCountsZero ==
    /\ (response.kind = "balance" /\ response.status = 200) =>
          LET T == response.body.year * 12 + (response.body.month - 1)
              income == ContributionSum(
                  VisibleOfType(response.user, response.home, "income") \cap Decodable, T)
              expenses == ContributionSum(
                  VisibleOfType(response.user, response.home, "expense") \cap Decodable, T)
          IN  /\ response.body.total_income = income
              /\ response.body.total_expenses = expenses
              /\ response.body.balance = RatSub(income, expenses)
    /\ (response.kind = "list" /\ response.status = 200) =>
          \A i \in 1 .. Len(response.body) :
              response.body[i].amount =
                  IF response.body[i].id \in Decodable
                  THEN DomainAmount(homeFinances[response.body[i].id])
                  ELSE RatInt(0)

\* decryptAmount has been applied to the stored value Decrypted.arg with the
\* outcome Decrypted.result.
Decrypted == [arg |-> response.body[1], result |-> response.body[2]]

\* C16 as stated: decryptAmount returns the plain number for a plain
\* numeric value without delimiters, and for a value it cannot decrypt it
\* returns a fallback value and throws nothing to its caller.
C16_DecodeTolerant ==
    response.kind = "decryptAmount" =>
        /\ (Decrypted.arg.parts = 1 /\ Decrypted.arg.leading # NaN) =>
              Decrypted.result = returned(Decrypted.arg.leading)
        /\ ~(Decrypted.arg.isString /\ Decrypted.arg.parts = 3
                /\ Decrypted.arg.authentic) =>
              ~Decrypted.result.threw

\* C12: in every reachable state each record's visibleToUserIds is a subset
\* of the accepted members of the record's home plus the home's owner.
C12_VisibleAreMembers ==
    \A x \in financeVisibility :
        /\ x[1] \in DOMAIN homeFinances
        /\ LET h == homeFinances[x[1]].home_id
           IN  x[2] \in AcceptedMembers(h) \cup { homes[h] }

\* A record is visible to user 3, who was invited and has accepted, while
\* user 2 is invited and has not accepted yet.
C12_Witness ==
    /\ \E id \in DOMAIN homeFinances : <<id, 3>> \in financeVisibility
    /\ pendingMember(1, 2) \in homeMembers

RatMulInt(a, k) == Rat(a.num * k, a.den)

\* C18: for a record with paymentMonths = n > 1 and amount A, the amount
\* displayed in each of the n active months is round(A / n) to the cent, so
\* that the n monthly amounts sum to A within n cents; the n monthly
\* contributions to the balance sum to A as well.
C18_PlanSumsToAmount ==
    (InSync /\ ExplicitPlan(LedgerRow)
        /\ MonthsDiff >= 0 /\ MonthsDiff < LedgerRow.payment_months) =>
        LET n == LedgerRow.payment_months
            A == DomainAmount(LedgerRow)
        IN  /\ Near(RatMulInt(OwnTotal, n), A, 2 * n)
            /\ TypeShown =>
                  /\ Len(displayedFinances) = 1
                  /\ displayedFinances[1].amount = RatInt(MathRound(RatDivInt(A, n)))
                  /\ Near(RatMulInt(displayedFinances[1].amount, n), A, 2 * n)

\* The record counts for the viewed month: the balance route's classifier
\* gives it a contribution, or the client's classifier gives the unfiltered
\* row an entry to display.
ServerActive ==
    calculateMonthlyContribution(LedgerRow, deobfuscate(LedgerRow.amount),
                                 monthIndex(Target)).num # 0
ClientActive ==
    displayEntries(processFinance(1, 0, 0), currentYear, currentMonth) # <<>>

\* C19: the month/year condition of the list and balance queries is never
\* stricter than the classifier: a record that the classifier counts for
\* the viewed month satisfies the condition (transaction month and year
\* match, or recurring, or payment_months > 1, or due-date range overlap).
C19_PrefilterNotStricter ==
    (ServerActive \/ ClientActive) =>
        monthYearFilter(LedgerRow, currentMonth, currentYear)

\* A due-date range record counted in a month after its transaction month,
\* selected by the balance and the list query.
C19_Witness ==
    /\ InSync
    /\ ServerActive /\ ClientActive
    /\ ~LedgerRow.is_recurring /\ ~ExplicitPlan(LedgerRow)
    /\ MonthsDiff > 0
    /\ OwnTotal = DomainAmount(LedgerRow)
    /\ Len(displayedFinances) = 1

\* The day of the stored date, clamped to the length of the viewed month.
ClampedDay ==
    IF LedgerRow.transaction_date.day <= DaysInMonth(currentYear, currentMonth)
    THEN LedgerRow.transaction_date.day
    ELSE DaysInMonth(currentYear, currentMonth)

\* C20: a recurring record in the list loaded for the viewed month carries
\* the re-projection flag and a transaction_date in the viewed month and
\* year, its day being the stored day clamped to the length of the month
\* (a 31st viewed in a shorter month stays in that month).
C20_ReprojectedInMonth ==
    \A i \in 1 .. Len(finances) :
        finances[i].is_recurring =>
            /\ finances[i].is_recurring_display
            /\ finances[i].transaction_date
                   = Date(currentYear, currentMonth, ClampedDay)

\* C17: an amount of at most two decimals that is written (multiplied by
\* 1009 and stored with two decimals) and read back (divided by 1009) is
\* the amount written, exactly; the stored value is the amount times 1009.
C17_RoundTripExact ==
    response.kind = "read" =>
        /\ response.body[2] = BigMulSmall(BigOf(response.body[1]), AMOUNT_OBFUSCATION_FACTOR)
        /\ response.body[3] = numberOfCents(BigOf(response.body[1]))

\* The day the projector is to show for a finance of the loaded list: the
\* day of its due date if it has one, else the day of its transaction
\* date, clamped to 1..28.
ClampTo28(d) == IF d < 1 THEN 1 ELSE IF d > 28 THEN 28 ELSE d
ExpectedDisplayDay(finance) ==
    ClampTo28(IF finance.due_date # NoDate THEN finance.due_date.day
              ELSE finance.transaction_date.day)

\* An entry of the displayed list made by the plan branch or by the
\* recurring branch of the projector.
PlanEntry(entry) == entry.payment_month_index # 0
RecurringEntry(entry) == entry.payment_month_index = 0 /\ entry.is_recurring

RegularEntry(entry) == entry.payment_month_index = 0 /\ ~entry.is_recurring

\* C22: a plain single-month record active in the viewed month is shown
\* on its transaction date unchanged: same year, month and day, the day
\* neither clamped to 28 nor taken from the due date.
C22_PlainDateUnchanged ==
    \A i \in 1 .. Len(displayedFinances) :
        RegularEntry(displayedFinances[i]) =>
            /\ Len(finances) = 1
            /\ displayedFinances[i].transaction_date = finances[1].transaction_date
            /\ displayedFinances[i].transaction_date = LedgerRow.transaction_date

\* The ids of the finances of the loaded list: the ids of stored records.
LoadedIds == { finances[j].id : j \in 1 .. Len(finances) }

\* A plan entry has the id original * 1000 + index and names its original,
\* a finance of the loaded list.
DerivedIdsMapBack ==
    \A i \in 1 .. Len(displayedFinances) :
        LET entry == displayedFinances[i]
        IN  PlanEntry(entry) =>
                /\ entry.original_finance_id \in LoadedIds
                /\ entry.original_finance_id \in FinanceIds
                /\ entry.id = entry.original_finance_id * 1000 + entry.payment_month_index

\* The entry being edited, whose id onSubmit sends, is a record as the
\* server listed it: no derived entry, its id the id of a stored record.
EditedIsStoredRecord ==
    editingFinance # NoFinance =>
        /\ editingFinance.original_finance_id = 0
        /\ editingFinance.payment_month_index = 0
        /\ editingFinance.id \in FinanceIds

\* A delete started from the displayed list finds its record.
DeleteFindsRecord == response.kind = "delete" => response.status = 200

\* C23: a plan entry has the display id originalId * 1000 + planIndex and
\* original_finance_id the id of the stored record; an edit or a delete
\* started from a displayed entry goes to the server with the id of the
\* stored record, never with a synthetic id; the store holds stored
\* records only.
C23_DerivedMapsToStored ==
    /\ DerivedIdsMapBack
    /\ EditedIsStoredRecord
    /\ DeleteFindsRecord
    /\ DOMAIN homeFinances \subseteq FinanceIds

\* The second month of a plan is shown as entry 1002 and its edit has been
\* sent for record 1.
C23_Witness ==
    /\ response.kind = "update" /\ response.status = 200
    /\ editingFinance.id = 1
    /\ \E i \in 1 .. Len(displayedFinances) :
          /\ displayedFinances[i].id = 1002
          /\ displayedFinances[i].original_finance_id = 1

\* C25: for a record that is recurring and has a plan of n > 1 months, the
\* months the client counts from the transaction date of the listed
\* finance are the months from the stored transaction date, and inside the
\* plan window the entry shown has the index monthsDiff + 1.
C25_PlanIndexFromStoredDate ==
    (Len(finances) = 1 /\ LedgerRow.is_recurring /\ ExplicitPlan(LedgerRow)) =>
        /\ monthsDiffOf(finances[1], currentYear, currentMonth) = MonthsDiff
        /\ (MonthsDiff >= 0 /\ MonthsDiff < LedgerRow.payment_months) =>
              /\ Len(displayedFinances) = 1
              /\ displayedFinances[1].payment_month_index = MonthsDiff + 1

\* C26: an update sent from the form without a change of its date field
\* leaves the stored transaction_date of the record as it was, whichever
\* month was viewed when the record was opened for edit.
C26_EditKeepsAnchorDate ==
    [][(/\ response = NoResponse
        /\ response'.kind = "update" /\ response'.status = 200
        /\ financeForm.transaction_date = editingFinance.transaction_date)
          => homeFinances'[editingFinance.id].transaction_date
                = homeFinances[editingFinance.id].transaction_date]_vars

\* The submitted values that are positive integers.
ValidMonths == { value.whole : value \in { v \in SubmittedMonths :
                                              v.numeric /\ v.exact /\ v.whole >= 1 } }

\* C24: a payment_months that is no integer or is below 1 is refused at
\* write time and stores nothing: every stored payment_months is absent or
\* a positive integer that was submitted as such.
C24_StoredMonthsValid ==
    \A id \in DOMAIN homeFinances :
        \/ homeFinances[id].payment_months = NoMonths
        \/ homeFinances[id].payment_months \in ValidMonths

\* The members that every update of ConcurrentSpec that is accepted keeps
\* in the visibility set of record 1, which they are in from the start.
StayingMembers == {2}

\* The record as a reader sees it in a list response.
SeenEntries ==
    { response.body[i] : i \in { j \in 1 .. Len(response.body) : response.body[j].id = 1 } }

\* C28: an update that replaces the visibility set is atomic to readers.
\* A member who is in the old and in the new set finds the record in every
\* list and balance response, and no list response shows the new amount
\* with the old visibility set or the old amount with the new set.
C28_UpdateAtomicToReaders ==
    /\ (response.kind = "list" /\ response.status = 200 /\ response.home = 1
           /\ response.user \in StayingMembers) => SeenEntries # {}
    /\ (response.kind = "balance" /\ response.status = 200 /\ response.home = 1
           /\ response.user \in StayingMembers) => response.body.total_expenses # RatInt(0)
    /\ (response.kind = "list" /\ response.status = 200) =>
           \A entry \in SeenEntries :
               entry.amount = RatInt(NewAmount) <=> entry.visible_to_user_ids = NewVisibility

\* C27: the ids of the entries of one displayed list are pairwise
\* distinct: the id original * 1000 + index of a plan entry is neither the
\* id of another plan entry nor the stored id of a recurring or plain entry
\* of the same list.
C27_DisplayIdsDistinct ==
    \A i, j \in 1 .. Len(displayedFinances) :
        i # j => displayedFinances[i].id # displayedFinances[j].id

\* C29: once every response has arrived, the component shows the list and
\* the balance of the month and year it has selected: the displayed list is
\* the projection, for the selected month, of the server's list for that
\* month, and the balance is the server's summary of that month.
C29_SettledShowsSelectedMonth ==
    (inFlight = {} /\ balance # NoSummary) =>
        /\ finances = getFinances(homeId, authUser, selectedType,
                                  currentMonth, currentYear).body
        /\ displayedFinances =
              processFinancesForDisplay(
                  getFinances(homeId, authUser, selectedType,
                              currentMonth, currentYear).body,
                  currentYear, currentMonth)
        /\ balance = getBalance(homeId, authUser, currentMonth, currentYear).body

\* C30: in every reachable state a home has at most one shopping list
\* whose status is active, also while create requests for the same home are
\* handled at the same time.
C30_OneActiveListPerHome ==
    \A h \in Homes : Cardinality(activeLists(h)) <= 1

=============================================================================
